---------------------------- MODULE Spec2Model ----------------------------
(***************************************************************************)
(* A model of the jasmin-cloud REST resource-client framework:             *)
(*   jasmin_cloud/provider/openstack/api/core.py   (OpenStack connection)  *)
(*   jasmin_cloud/provider/cluster_engine/awx/api.py   (AWX listing)       *)
(*                                                                         *)
(* Strings that the code takes apart (URLs) are sequences of one-character *)
(* strings, so that rstrip and urlsplit are computed, not assumed.         *)
(***************************************************************************)
EXTENDS Integers, Sequences, FiniteSets, TLC

VARIABLES
    conns,      \* the OpenStack Connection objects, by identity
    sessions,   \* the requests.Session objects, by identity
    services,   \* the Service objects constructed so far, by identity
    gens,       \* the listing generators, by identity
    net,        \* the HTTP exchange in progress (calls are blocking: one)
    order,      \* the server's collection: its pages in link order
    held,       \* the Connections the caller holds a reference to
    call,       \* the last call of an operation that returns at once, with its result
    dicts,      \* the dict objects of the AuthParams and of their caller, by identity
    auths       \* the AuthParams objects, by identity

objVars  == <<conns, sessions, services, gens, net, order, held>>
pureVars == <<call, dicts, auths>>
vars == <<conns, sessions, services, gens, net, order, held, call, dicts, auths>>

----------------------------------------------------------------------------
(* Bounds of the model *)

MaxConns == 2
MaxLists == 2
MaxPages == 3

ConnIds == 1..MaxConns
GenIds  == 1..MaxLists

----------------------------------------------------------------------------
(* Character sequences *)

RECURSIVE RStrip(_, _)
\* str.rstrip(ch)
RStrip(s, ch) ==
    IF Len(s) > 0 /\ s[Len(s)] = ch THEN RStrip(SubSeq(s, 1, Len(s) - 1), ch) ELSE s

\* 1-based position of the first element of s, at or after position from,
\* that is in chars; Len(s) + 1 when there is none
RECURSIVE FindFrom(_, _, _)
FindFrom(s, chars, from) ==
    IF from > Len(s) THEN Len(s) + 1
    ELSE IF s[from] \in chars THEN from
    ELSE FindFrom(s, chars, from + 1)

Suffix(s, from) == SubSeq(s, from, Len(s))
Prefix(s, upto) == SubSeq(s, 1, upto)

Letters     == {"h", "H", "a", "k", "v", "q", "f"}
Digits      == {"8"}
SchemeChars == Letters \cup Digits \cup {"+", "-", "."}

Lower(ch) == IF ch = "H" THEN "h" ELSE ch
LowerSeq(s) == [i \in 1..Len(s) |-> Lower(s[i])]

\* urllib.parse.urlsplit(url): <<scheme, netloc, path, query, fragment>>
UrlSplit(url) ==
    LET colon   == FindFrom(url, {":"}, 1)
        isSch   == /\ colon <= Len(url)
                   /\ colon > 1
                   /\ url[1] \in Letters
                   /\ \A i \in 1..(colon - 1) : url[i] \in SchemeChars
        scheme  == IF isSch THEN LowerSeq(Prefix(url, colon - 1)) ELSE <<>>
        rest1   == IF isSch THEN Suffix(url, colon + 1) ELSE url
        hasNet  == Len(rest1) >= 2 /\ rest1[1] = "/" /\ rest1[2] = "/"
        delim   == FindFrom(rest1, {"/", "?", "#"}, 3)
        netloc  == IF hasNet THEN SubSeq(rest1, 3, delim - 1) ELSE <<>>
        rest2   == IF hasNet THEN Suffix(rest1, delim) ELSE rest1
        hash    == FindFrom(rest2, {"#"}, 1)
        frag    == IF hash <= Len(rest2) THEN Suffix(rest2, hash + 1) ELSE <<>>
        rest3   == IF hash <= Len(rest2) THEN Prefix(rest2, hash - 1) ELSE rest2
        qm      == FindFrom(rest3, {"?"}, 1)
        query   == IF qm <= Len(rest3) THEN Suffix(rest3, qm + 1) ELSE <<>>
        path    == IF qm <= Len(rest3) THEN Prefix(rest3, qm - 1) ELSE rest3
    IN  [scheme |-> scheme, netloc |-> netloc, path |-> path,
         query |-> query, fragment |-> frag]

\* the schemes of urllib.parse.uses_netloc that occur here ("h" is http)
UsesNetloc == {<<"h">>}

\* SplitResult.geturl(), that is urlunsplit(parts)
GetUrl(parts) ==
    LET url0 == parts.path
        url1 == IF \/ parts.netloc # <<>>
                   \/ /\ parts.scheme # <<>>
                      /\ parts.scheme \in UsesNetloc
                      /\ ~(Len(url0) >= 2 /\ url0[1] = "/" /\ url0[2] = "/")
                THEN <<"/", "/">> \o parts.netloc
                       \o (IF url0 # <<>> /\ url0[1] # "/" THEN <<"/">> ELSE <<>>)
                       \o url0
                ELSE url0
        url2 == IF parts.scheme # <<>> THEN parts.scheme \o <<":">> \o url1 ELSE url1
        url3 == IF parts.query # <<>> THEN url2 \o <<"?">> \o parts.query ELSE url2
    IN  IF parts.fragment # <<>> THEN url3 \o <<"#">> \o parts.fragment ELSE url3

\* (mutant of StripPath) the URL is stored as the catalog gives it
StripPath_kept(endpoint) == GetUrl(UrlSplit(endpoint))

\* urlsplit(endpoint)._replace(path = '').geturl()
StripPath(endpoint) == GetUrl([UrlSplit(endpoint) EXCEPT !.path = <<>>])

----------------------------------------------------------------------------
(* Values *)

None   == "None"                \* Python's None as an attribute value
Null   == [null |-> TRUE]       \* JSON null, and None where a URL is expected

EmptyDict == <<>>

\* dict[k] = v
DictSet(d, k, v) == [x \in (DOMAIN d) \cup {k} |-> IF x = k THEN v ELSE d[x]]

\* dict.get(k, default)
DictGet(d, k, default) == IF k \in DOMAIN d THEN d[k] ELSE default

NoError == [exc |-> "none"]
NoCall  == [op |-> "none"]

\* a call of an operation with its arguments, and the call once it has returned
Called(op, args) == [op |-> op, st |-> "called", args |-> args]
Returned(called, result) ==
    [op |-> called.op, st |-> "returned", args |-> called.args, result |-> result]
KeyError(k) == [exc |-> "KeyError", key |-> k]

KeystoneUrl      == <<"h", ":", "/", "/", "k", "/", "v">>
KeystoneUrlSlash == KeystoneUrl \o <<"/">>

\* endpoint URLs a service catalog may hold
UrlPlain    == <<"h", ":", "/", "/", "a">>
UrlPath     == <<"h", ":", "/", "/", "a", ":", "8", "/", "v", "/">>
UrlQuery    == <<"h", ":", "/", "/", "q", "/", "v", "?", "q">>
UrlFragment == <<"H", ":", "/", "/", "f", "/", "v", "#", "f">>
UrlOther    == <<"h", ":", "/", "/", "k", ":", "8", "/", "v">>

----------------------------------------------------------------------------
(* AuthParams (core.py 19-66) *)

\* AuthParams(): self.params = params or dict()
AuthParamsNew == EmptyDict

\* AuthParams.use_token
use_token(params, token) ==
    DictSet(params, "identity", [methods |-> <<"token">>, token |-> [id |-> token]])

\* AuthParams.use_password
use_password(params, domain, username, password) ==
    DictSet(params, "identity",
        [methods  |-> <<"password">>,
         password |-> [user |-> [domain   |-> [name |-> domain],
                                 name     |-> username,
                                 password |-> password]]])

\* AuthParams.use_project_id
use_project_id(params, project_id) ==
    DictSet(params, "scope", [project |-> [id |-> project_id]])

\* AuthParams.as_dict
as_dict(params) == params

----------------------------------------------------------------------------
(* The identity service, as the client sees it (spec 6: authentication     *)
(* endpoint).  A catalog is a sequence of {type, endpoints: [{interface,   *)
(* url}]} entries.                                                          *)

Ep(interface, url) == [interface |-> interface, url |-> url]
Entry(type, endpoints) == [type |-> type, endpoints |-> endpoints]

\* one entry per type; the image entry has no public endpoint
CatalogA ==
    << Entry("compute", << Ep("internal", UrlPlain), Ep("public", UrlPath) >>),
       Entry("image",   << Ep("admin", UrlOther), Ep("internal", UrlFragment) >>) >>

\* entries of one type with different interfaces and with the same one; an
\* entry with two endpoints on one interface (two regions)
CatalogB ==
    << Entry("compute", << Ep("internal", UrlOther) >>),
       Entry("compute", << Ep("public", UrlQuery), Ep("public", UrlPlain) >>),
       Entry("image",   << Ep("public", UrlFragment) >>),
       Entry("compute", << Ep("public", UrlOther), Ep("internal", UrlQuery) >>),
       Entry("image",   << >>) >>

Catalogs == {CatalogA, CatalogB}

DefaultProject == "p0"

\* the token the service issues in its k-th successful answer
TokenOf(k) == IF k = 1 THEN "t1" ELSE IF k = 2 THEN "t2" ELSE IF k = 3 THEN "t3" ELSE "t4"

TransportFailure == [kind |-> "failure"]
HttpResponse(status, headers, json) ==
    [kind |-> "http", status |-> status, headers |-> headers, json |-> json]

\* the token document of a successful answer
TokenBody(project, catalog) ==
    LET t0 == DictSet(EmptyDict, "user", [name |-> "alice"])
        t1 == IF project = None THEN t0 ELSE DictSet(t0, "project", [id |-> project])
        t2 == IF catalog = Null THEN t1 ELSE DictSet(t1, "catalog", catalog)
    IN  [token |-> t2]

\* what the identity service may answer to an authentication request:
\* a transport failure, a rejection, a 2xx answer lacking the token header or
\* the user, or a token: scoped to the requested project, or (no scope
\* requested) unscoped without catalog or scoped to the user's default project
AuthAnswers(req, k) ==
    LET payload == req.json.auth
        hdr     == DictSet(EmptyDict, "X-Subject-Token", TokenOf(k))
        scoped  == "scope" \in DOMAIN payload
        project == IF scoped THEN payload.scope.project.id ELSE DefaultProject
    IN  {TransportFailure,
         HttpResponse(401, EmptyDict, [error |-> [code |-> 401, message |-> "denied"]]),
         HttpResponse(201, EmptyDict, TokenBody(project, CatalogA)),
         HttpResponse(201, hdr, [token |-> DictSet(EmptyDict, "catalog", CatalogA)])}
        \cup {HttpResponse(201, hdr, TokenBody(project, cat)) : cat \in Catalogs}
        \cup (IF scoped THEN {} ELSE {HttpResponse(201, hdr, TokenBody(None, Null))})

----------------------------------------------------------------------------
(* rackit.Connection, the base class of Connection and Service: its        *)
(* api_<verb> methods send through the session and turn a non-2xx response *)
(* into an ApiError (spec 7).                                              *)

ApiError(response) == [exc |-> "ApiError", status |-> response.status]
TransportError == [exc |-> "ConnectionError"]

\* the outcome of api_request once the session has the answer
ApiOutcome(answer) ==
    IF answer.kind = "failure" THEN [raised |-> TransportError, response |-> answer]
    ELSE IF answer.status \notin 200..299
         THEN [raised |-> ApiError(answer), response |-> answer]
    ELSE [raised |-> NoError, response |-> answer]

----------------------------------------------------------------------------
(* Connection (core.py 210-287) *)

\* a Connection object that has not been created
AbsentConn ==
    [st        |-> "absent",   \* absent, authenticating, ready or failed
     auth_url  |-> <<>>,
     params    |-> EmptyDict,
     interface |-> "",
     verify    |-> FALSE,
     attrs     |-> {},         \* which of the four attributes below are set
     token     |-> "",
     username  |-> "",
     project_id |-> None,
     endpoints |-> EmptyDict,
     session   |-> 0,
     cache     |-> EmptyDict,  \* the cached properties, by service name
     \* history, not state of the program:
     sent      |-> <<>>,       \* the requests the constructor sent
     answer    |-> Null,       \* the answer to the authentication request
     raised    |-> NoError,    \* what the constructor raised to its caller
     parent    |-> 0,          \* the Connection whose scoped_connection made it
     given     |-> Null,       \* the argument of that scoped_connection
     access    |-> EmptyDict]  \* by service name, how its last access ended

Idle == [phase |-> "idle", op |-> <<"none", 0>>, msg |-> Null]

Request(method, url, json, session) ==
    [method |-> method, url |-> url, headers |-> EmptyDict, json |-> json,
     session |-> session]

\* (mutant of Connection_call) the header is set whether or not a token is known
Connection_call_always(self, request) ==
    [request EXCEPT !.headers =
        DictSet(@, "X-Auth-Token", IF "token" \in self.attrs THEN self.token ELSE None)]

\* Connection.__call__: the session's auth hook
Connection_call(self, request) ==
    IF "token" \in self.attrs
    THEN [request EXCEPT !.headers = DictSet(@, "X-Auth-Token", self.token)]
    ELSE request

\* (mutant of NewSession) a scoped Connection reuses the session of its parent
NewSession_shared(parent) ==
    IF parent # 0 THEN conns[parent].session ELSE Len(sessions) + 1

\* session = requests.Session(): a new object
NewSession(parent) == Len(sessions) + 1

\* objects with obj stored under identity id
Store(objects, id, obj) ==
    [i \in 1..(IF id > Len(objects) THEN id ELSE Len(objects)) |->
        IF i = id THEN obj ELSE objects[i]]

\* Connection.__init__, up to the sending of the authentication request
Connection_init(c, auth_url, params, interface, verify, parent, given) ==
    LET sid  == NewSession(parent)
        self == [AbsentConn EXCEPT !.st = "authenticating",
                                   !.auth_url = RStrip(auth_url, "/"),
                                   !.params = params,
                                   !.interface = interface,
                                   !.verify = verify,
                                   !.session = sid,
                                   !.parent = parent,
                                   !.given = given]
        url  == [base |-> RStrip(auth_url, "/"), path |-> <<"/", "a", "u", "t", "h", "/", "t", "o", "k", "e", "n", "s">>, page |-> 0]
        req  == Connection_call(self,
                    Request("POST", url, [auth |-> as_dict(params)], sid))
    IN  /\ conns' = [conns EXCEPT ![c] = [self EXCEPT !.sent = Append(@, req)]]
        /\ sessions' = Store(sessions, sid, [open |-> TRUE, auth |-> c, verify |-> verify])
        /\ net' = [phase |-> "request", op |-> <<"auth", c>>, msg |-> req]

\* (mutant of OnApiError) the error is wrapped in another one
OnApiError_wrapped(self, error) ==
    [self |-> self, close |-> TRUE, raised |-> [exc |-> "RuntimeError", cause |-> error]]

\* except rackit.ApiError: session.close(); raise
OnApiError(self, error) == [self |-> self, close |-> TRUE, raised |-> error]

\* (mutant of SelectEndpoint) the first endpoint, whatever its interface
SelectEndpoint_first(entry, interface) == 1

\* next(ep['url'] for ep in entry['endpoints'] if ep['interface'] == interface):
\* the position of the endpoint taken, past the end when StopIteration
SelectEndpoint(entry, interface) ==
    FindFrom([i \in 1..Len(entry.endpoints) |-> entry.endpoints[i].interface],
             {interface}, 1)

\* the loop over the catalog
RECURSIVE CatalogEndpoints(_, _, _)
CatalogEndpoints(catalog, interface, endpoints) ==
    IF catalog = <<>> THEN endpoints
    ELSE LET entry == Head(catalog)
             at    == SelectEndpoint(entry, interface)
         IN  IF at > Len(entry.endpoints)
             THEN CatalogEndpoints(Tail(catalog), interface, endpoints)
             ELSE CatalogEndpoints(Tail(catalog), interface,
                      DictSet(endpoints, entry.type, StripPath(entry.endpoints[at].url)))

\* Connection.__init__ from the return of api_post on: the object as it is
\* left, whether the session was closed, and what is raised
Connection_init_finish(self, outcome) ==
    IF outcome.raised.exc = "ApiError" THEN OnApiError(self, outcome.raised)
    ELSE IF outcome.raised # NoError
         THEN [self |-> self, close |-> FALSE, raised |-> outcome.raised]
    ELSE LET response == outcome.response
             json     == response.json
         IN  IF "X-Subject-Token" \notin DOMAIN response.headers
             THEN [self |-> self, close |-> FALSE, raised |-> KeyError("X-Subject-Token")]
             ELSE LET s1 == [self EXCEPT !.token = response.headers["X-Subject-Token"],
                                         !.attrs = @ \cup {"token"}]
                  IN  IF "user" \notin DOMAIN json.token
                      THEN [self |-> s1, close |-> FALSE, raised |-> KeyError("user")]
                      ELSE [self |->
                               [s1 EXCEPT
                                  !.username = json.token.user.name,
                                  !.project_id =
                                      DictGet(DictGet(json.token, "project", EmptyDict),
                                              "id", None),
                                  !.endpoints =
                                      CatalogEndpoints(DictGet(json.token, "catalog", <<>>),
                                                       self.interface, EmptyDict),
                                  !.attrs = @ \cup {"username", "project_id", "endpoints"}],
                            close |-> FALSE, raised |-> NoError]

\* the arguments the caller constructs a Connection with
RootArgs ==
    {[auth_url |-> KeystoneUrlSlash, interface |-> "public",   verify |-> TRUE],
     [auth_url |-> KeystoneUrl,      interface |-> "internal", verify |-> FALSE]}

FreeConn(c) == conns[c].st = "absent" /\ \A d \in ConnIds : d < c => conns[d].st # "absent"

\* Connection(auth_url, AuthParams().use_password(...), interface, verify)
Construct(args) ==
    /\ net.phase = "idle"
    /\ \E c \in {1} :
         /\ FreeConn(c)
         /\ Connection_init(c, args.auth_url,
                            use_password(AuthParamsNew, "default", "alice", "secret"),
                            args.interface, args.verify, 0, Null)
    /\ UNCHANGED <<services, gens, order, held>>
    /\ UNCHANGED pureVars

\* the caller constructs one Connection, and scopes the others from it
NewConnection == \E args \in RootArgs : Construct(args)

\* what scoped_connection may be given: a project id or a Resource with an id
ProjectArgs ==
    {[isResource |-> FALSE, value |-> "p1"], [isResource |-> TRUE, id |-> "p2"]}

\* the project id scoped_connection extracts from its argument
ProjectIdOf(project_or_id) ==
    IF project_or_id.isResource THEN project_or_id.id ELSE project_or_id.value

\* AuthParams().use_token(self.token).use_project_id(project_id)
ScopedParams(self, project_id) ==
    use_project_id(use_token(AuthParamsNew, self.token), project_id)

\* (mutant of scoped_connection) interface and verify are left to their defaults
scoped_connection_defaults(parent, c, project_or_id) ==
    Connection_init(c, conns[parent].auth_url,
                    ScopedParams(conns[parent], ProjectIdOf(project_or_id)),
                    "public", TRUE, parent, project_or_id)

\* Connection.scoped_connection
scoped_connection(parent, c, project_or_id) ==
    Connection_init(c, conns[parent].auth_url,
                    ScopedParams(conns[parent], ProjectIdOf(project_or_id)),
                    conns[parent].interface, conns[parent].verify,
                    parent, project_or_id)

Scope(slots, project_or_id) ==
    /\ net.phase = "idle"
    /\ \E parent \in held, c \in slots :
         /\ FreeConn(c)
         /\ scoped_connection(parent, c, project_or_id)
    /\ UNCHANGED <<services, gens, order, held>>
    /\ UNCHANGED pureVars

ScopedConnection == \E project_or_id \in ProjectArgs : Scope(ConnIds, project_or_id)

\* the identity service gives an answer to the authentication request
Answer(answer) ==
    /\ net' = [net EXCEPT !.phase = "response", !.msg = answer]
    /\ UNCHANGED <<conns, sessions, services, gens, order, held>>
    /\ UNCHANGED pureVars

AuthRespond ==
    /\ net.phase = "request"
    /\ net.op[1] = "auth"
    /\ \E answer \in AuthAnswers(net.msg, net.op[2]) : Answer(answer)

\* api_post returns or raises, and Connection.__init__ runs to its end
AuthReceive ==
    /\ net.phase = "response"
    /\ net.op[1] = "auth"
    /\ LET c   == net.op[2]
           fin == Connection_init_finish(conns[c], ApiOutcome(net.msg))
       IN  /\ conns' = [conns EXCEPT ![c] =
                           [fin.self EXCEPT
                               !.st = IF fin.raised = NoError THEN "ready" ELSE "failed",
                               !.answer = net.msg,
                               !.raised = fin.raised]]
           /\ sessions' = IF fin.close
                          THEN [sessions EXCEPT ![conns[c].session].open = FALSE]
                          ELSE sessions
           /\ held' = IF fin.raised = NoError THEN held \cup {c} ELSE held
    /\ net' = Idle
    /\ UNCHANGED <<services, gens, order>>
    /\ UNCHANGED pureVars

\* Connection.close(): the caller releases a Connection it holds
Close ==
    /\ net.phase = "idle"
    /\ \E c \in held :
         /\ sessions[conns[c].session].open
         /\ sessions' = [sessions EXCEPT ![conns[c].session].open = FALSE]
    /\ UNCHANGED <<conns, services, gens, net, order, held>>
    /\ UNCHANGED pureVars

----------------------------------------------------------------------------
(* Services (core.py 290-330) *)

\* the Service subclasses: catalog type and path prefix template
ComputeService == [catalog_type |-> "compute", path_prefix |-> <<"/v2.1">>]
ImageService   == [catalog_type |-> "image",   path_prefix |-> <<"/v2">>]
OrchestrationService ==
    [catalog_type |-> "orchestration", path_prefix |-> <<"/v1/", "{project_id}">>]

\* the accessors Service.__init_subclass__ attaches to Connection
ServiceNames == {"compute", "image", "orchestration"}
ServiceClass(name) ==
    IF name = "compute" THEN ComputeService
    ELSE IF name = "image" THEN ImageService
    ELSE OrchestrationService

\* str.format(project_id = ...) on a path prefix template
Format(template, project_id) ==
    [i \in 1..Len(template) |->
        IF template[i] = "{project_id}" THEN project_id ELSE template[i]]

\* (mutant of Service_init) the path prefix is left as the class declares it
Service_init_no_format(service_cls, url, session) ==
    [catalog_type |-> service_cls.catalog_type,
     url          |-> url,
     session      |-> session,
     path_prefix  |-> service_cls.path_prefix]

\* (mutant of Service_init) the Service works on a session of its own
Service_init_own_session(service_cls, url, session) ==
    [catalog_type |-> service_cls.catalog_type,
     url          |-> url,
     session      |-> 0,
     path_prefix  |-> Format(service_cls.path_prefix,
                             conns[sessions[session].auth].project_id)]

\* Service.__init__
Service_init(service_cls, url, session) ==
    [catalog_type |-> service_cls.catalog_type,
     url          |-> url,
     session      |-> session,
     path_prefix  |-> Format(service_cls.path_prefix,
                             conns[sessions[session].auth].project_id)]

\* (mutant of NewService) one Service object per class, shared by all Connections
NewService_singleton(service_cls, session) ==
    IF \E id \in DOMAIN services : services[id].catalog_type = service_cls.catalog_type
    THEN CHOOSE id \in DOMAIN services :
             services[id].catalog_type = service_cls.catalog_type
    ELSE <<session, 1>>

\* service_cls(...): a new object. Its identity is <<s, k>> for the k-th
\* Service constructed on session s, so that the identities do not depend on
\* the order in which different Connections construct their Services
NewService(service_cls, session) ==
    <<session, Cardinality({id \in DOMAIN services : id[1] = session}) + 1>>

NoService == <<0, 0>>

\* (mutant of get_service) a catalog type without endpoint gives a Service
\* without URL
get_service_lenient(instance, service_cls) ==
    [raised  |-> NoError,
     id      |-> NewService(service_cls, instance.session),
     service |-> Service_init(service_cls,
                              DictGet(instance.endpoints, service_cls.catalog_type, <<>>),
                              instance.session)]

\* ServiceDescriptor.get_service
get_service(instance, service_cls) ==
    IF service_cls.catalog_type \notin DOMAIN instance.endpoints
    THEN [raised |-> KeyError(service_cls.catalog_type), id |-> NoService,
          service |-> Null]
    ELSE [raised  |-> NoError,
          id      |-> NewService(service_cls, instance.session),
          service |-> Service_init(service_cls,
                                   instance.endpoints[service_cls.catalog_type],
                                   instance.session)]

\* rackit.CachedProperty.__get__ on a Connection: the cached object, or the
\* getter's result, which is then cached (new)
Getattr(c, name) ==
    IF name \in DOMAIN conns[c].cache
    THEN [raised |-> NoError, id |-> conns[c].cache[name], new |-> FALSE,
          service |-> services[conns[c].cache[name]]]
    ELSE LET got == get_service(conns[c], ServiceClass(name))
         IN  [raised |-> got.raised, id |-> got.id, new |-> got.raised = NoError,
              service |-> got.service]

\* what an access that ended as got leaves behind: the Service it constructed,
\* the cache entry, and how it ended
Accessed(c, name, got) ==
    /\ services' = IF got.new THEN DictSet(services, got.id, got.service) ELSE services
    /\ conns' = [conns EXCEPT
                    ![c].cache  = IF got.new THEN DictSet(@, name, got.id) ELSE @,
                    ![c].access = DictSet(@, name, [raised |-> got.raised, id |-> got.id])]

\* the caller reads a service accessor of a Connection it holds
Access(c, name) ==
    /\ net.phase = "idle"
    /\ c \in held
    /\ Accessed(c, name, Getattr(c, name))
    /\ UNCHANGED <<sessions, gens, net, order, held>>
    /\ UNCHANGED pureVars

\* the accessors read here are those of the compute and the image service
ServiceAccess == \E c \in ConnIds, name \in {"compute", "image"} : Access(c, name)

----------------------------------------------------------------------------
(* Cross-service relations (core.py 97-110) *)

AttributeError(name) == [exc |-> "AttributeError", name |-> name]
RuntimeError(message) == [exc |-> "RuntimeError", message |-> message]

\* str.replace(old, new), old and new being one character
Replace(s, old, new) == [i \in 1..Len(s) |-> IF s[i] = old THEN new ELSE s[i]]

\* the accessor that related_manager reads for a catalog type
ServiceName(catalog_type) == Replace(catalog_type, "-", "_")

\* the spelling of the accessor names attached to Connection
Spelling(name) ==
    IF name = "compute" THEN <<"c", "o", "m", "p", "u", "t", "e">>
    ELSE IF name = "image" THEN <<"i", "m", "a", "g", "e">>
    ELSE <<"o", "r", "c", "h", "e", "s", "t", "r", "a", "t", "i", "o", "n">>

\* the root resources of the Service subclasses
RootResources(service_cls) ==
    IF service_cls.catalog_type = "compute" THEN {"Flavor", "Keypair", "Server"}
    ELSE IF service_cls.catalog_type = "image" THEN {"Image"}
    ELSE {"Stack"}

\* the resource classes a relation may name, each with the catalog type of its
\* _connection_cls: two root resources, a nested resource, and a resource of
\* a service (catalog type "k-m") for which Connection has no accessor
RelatedClasses ==
    {[name |-> "Flavor",           catalog_type |-> Spelling("compute")],
     [name |-> "Image",            catalog_type |-> Spelling("image")],
     [name |-> "VolumeAttachment", catalog_type |-> Spelling("compute")],
     [name |-> "Secret",           catalog_type |-> <<"k", "-", "m">>]}

\* rackit.Connection.root_manager: the manager of the root resource of the
\* Service for the class, None when the Service has no such root resource
root_manager(id, service, resource_cls) ==
    IF resource_cls.name \in RootResources([catalog_type |-> service.catalog_type])
    THEN [service |-> id, resource |-> resource_cls.name]
    ELSE Null

\* (mutant of related_manager) the manager is looked up on the Service of the
\* manager that resolves the relation
related_manager_own_service(sv, resource_cls) ==
    LET root == root_manager(sv, services[sv], resource_cls)
    IN  [name |-> "", got |-> Null, manager |-> root,
         raised |-> IF root # Null THEN NoError
                    ELSE RuntimeError("Unable to locate manager for embedded resource")]

\* ResourceManager.related_manager, of a manager of Service sv: the accessor
\* read (name, got), the manager returned and the error raised
related_manager(sv, resource_cls) ==
    LET auth         == sessions[services[sv].session].auth
        service_name == ServiceName(resource_cls.catalog_type)
        names        == {n \in ServiceNames : Spelling(n) = service_name}
    IN  IF names = {}
        THEN [name |-> "", got |-> Null, manager |-> Null,
              raised |-> AttributeError(service_name)]
        ELSE LET name == CHOOSE n \in names : TRUE
                 got  == Getattr(auth, name)
             IN  IF got.raised # NoError
                 THEN [name |-> name, got |-> got, manager |-> Null, raised |-> got.raised]
                 ELSE LET root == root_manager(got.id, got.service, resource_cls)
                      IN  [name |-> name, got |-> got, manager |-> root,
                           raised |-> IF root # Null THEN NoError
                                      ELSE RuntimeError(
                                        "Unable to locate manager for embedded resource")]

\* a manager of a Service resolves the manager of a related resource class
RelatedManager ==
    /\ net.phase = "idle"
    /\ \E sv \in DOMAIN services, resource_cls \in RelatedClasses :
         LET auth == sessions[services[sv].session].auth
             res  == related_manager(sv, resource_cls)
         IN  /\ IF res.got = Null THEN UNCHANGED <<conns, services>>
                ELSE Accessed(auth, res.name, res.got)
             /\ call' = [op |-> "related_manager", service |-> sv, owner |-> auth,
                         resource_cls |-> resource_cls,
                         manager |-> res.manager, raised |-> res.raised]
    /\ UNCHANGED <<sessions, gens, net, order, held, dicts, auths>>

----------------------------------------------------------------------------
(* Listing (core.py 112-125 and 143-153, awx/api.py 16-18) *)

\* None as the value of an option, among the character sequences
NoKey == <<"None">>

\* '{}_links'
LinksSuffix == <<"_", "l", "i", "n", "k", "s">>

\* bool(key) of an option value
Given(key) == key # <<>> /\ key # NoKey

RECURSIVE LStrip(_, _)
\* str.lstrip(ch)
LStrip(s, ch) == IF Len(s) > 0 /\ s[1] = ch THEN LStrip(Tail(s), ch) ELSE s

\* str.strip(ch)
Strip(s, ch) == RStrip(LStrip(s, ch), ch)

\* (mutant of ResourceOptions) the links key and the resource key are derived
\* from the endpoint, whatever list key is declared
ResourceOptions_from_endpoint(options) ==
    LET endpoint == DictGet(options, "endpoint", NoKey)
        derived  == Strip(endpoint, "/")
        o1 == IF "resource_list_key" \notin DOMAIN options
              THEN DictSet(options, "resource_list_key", derived) ELSE options
        o2 == IF "resource_links_key" \notin DOMAIN o1
              THEN DictSet(o1, "resource_links_key", derived \o LinksSuffix) ELSE o1
        o3 == IF "resource_key" \notin DOMAIN o2
              THEN DictSet(o2, "resource_key", SubSeq(derived, 1, Len(derived) - 1))
              ELSE o2
    IN  IF Given(endpoint) THEN o3 ELSE options

\* ResourceOptions.__init__: the options as they are handed to the base class
ResourceOptions(options) ==
    LET endpoint == DictGet(options, "endpoint", NoKey)
        o1 == IF "resource_list_key" \notin DOMAIN options
              THEN DictSet(options, "resource_list_key", Strip(endpoint, "/"))
              ELSE options
        o2 == IF "resource_links_key" \notin DOMAIN o1
              THEN DictSet(o1, "resource_links_key", o1["resource_list_key"] \o LinksSuffix)
              ELSE o1
        o3 == IF "resource_key" \notin DOMAIN o2
              THEN DictSet(o2, "resource_key",
                           SubSeq(o2["resource_list_key"], 1,
                                  Len(o2["resource_list_key"]) - 1))
              ELSE o2
    IN  IF Given(endpoint) THEN o3 ELSE options

\* (mutant of UnmanagedResourceOptions) the key is derived as the resource_key
\* of a managed resource is: without the last character
UnmanagedResourceOptions_singular(options) ==
    LET endpoint == DictGet(options, "endpoint", NoKey)
        derived  == Strip(endpoint, "/")
    IN  IF Given(endpoint) /\ "resource_key" \notin DOMAIN options
        THEN DictSet(options, "resource_key", SubSeq(derived, 1, Len(derived) - 1))
        ELSE options

\* UnmanagedResourceOptions.__init__
UnmanagedResourceOptions(options) ==
    LET endpoint == DictGet(options, "endpoint", NoKey)
    IN  IF Given(endpoint) /\ "resource_key" \notin DOMAIN options
        THEN DictSet(options, "resource_key", Strip(endpoint, "/"))
        ELSE options

\* the Meta of resource classes
AuthProjectMeta == [endpoint |-> <<"/", "a", "u", "t", "h", "/", "p", "r", "o", "j", "e", "c", "t", "s">>,
                    resource_list_key |-> <<"p", "r", "o", "j", "e", "c", "t", "s">>]
FlavorMeta      == [endpoint |-> <<"/", "f", "l", "a", "v", "o", "r", "s">>]
ImageMeta       == [endpoint |-> <<"/", "i", "m", "a", "g", "e", "s">>, resource_key |-> NoKey]
LimitsMeta      == [endpoint |-> <<"/", "l", "i", "m", "i", "t", "s">>]
JobMeta         == [endpoint |-> <<"/", "j", "o", "b", "s", "/">>]

\* the resource types used here, with their options
AuthProject == ResourceOptions(AuthProjectMeta)
Flavor      == ResourceOptions(FlavorMeta)
Image       == ResourceOptions(ImageMeta)
Limits      == UnmanagedResourceOptions(LimitsMeta)
Job         == JobMeta

\* the session of the AWX connection, which uses basic authentication
AwxSession == 0
AwxUrl     == <<"h", ":", "/", "/", "a", "v">>

\* the entries of page p of the server's collection
PageData(p) == [j \in 1..(p % 3) |-> 10 * p + j]

\* the collections the server may hold: pages 1..n, linked in some order from page 1
Orders ==
    {o \in UNION {[1..n -> 1..n] : n \in 1..MaxPages} :
        /\ o[1] = 1
        /\ \A i, j \in DOMAIN o : i # j => o[i] # o[j]}

PositionOf(p) == CHOOSE i \in DOMAIN order : order[i] = p

\* the page a URL names: the collection URL itself names the first page
PageOf(url) == IF url.page = 0 THEN order[1] ELSE url.page

\* an OpenStack list envelope: the links array holds a previous link (but on
\* the first page) and a next link (but on the last), and after the next link
\* of an even page a second one, to the first page; without links, no array
OpenStackPage(type, url) ==
    LET p     == PageOf(url)
        i     == PositionOf(p)
        prev  == IF i > 1 THEN <<[rel |-> "prev", href |-> [url EXCEPT !.page = order[i - 1]]]>>
                 ELSE <<>>
        next  == IF i < Len(order)
                 THEN <<[rel |-> "next", href |-> [url EXCEPT !.page = order[i + 1]]]>>
                      \o (IF p % 2 = 0
                          THEN <<[rel |-> "next", href |-> [url EXCEPT !.page = order[1]]]>>
                          ELSE <<>>)
                 ELSE <<>>
        body  == DictSet(EmptyDict, type.resource_list_key, PageData(p))
    IN  IF prev \o next = <<>> THEN body
        ELSE DictSet(body, type.resource_links_key, prev \o next)

\* an AWX list envelope: direct previous and next fields; on the last page the
\* next field is null or missing
AwxPage(url) ==
    LET p    == PageOf(url)
        i    == PositionOf(p)
        body == DictSet(DictSet(EmptyDict, "results", PageData(p)), "previous",
                        IF i > 1 THEN [url EXCEPT !.page = order[i - 1]] ELSE Null)
    IN  IF i < Len(order) THEN DictSet(body, "next", [url EXCEPT !.page = order[i + 1]])
        ELSE IF p % 2 = 1 THEN DictSet(body, "next", Null)
        ELSE body

\* what an extraction gives: the data and the next URL, or the error raised
Extracted(data, next_url) == [raised |-> NoError, data |-> data, next_url |-> next_url]
Raised(error) == [raised |-> error, data |-> <<>>, next_url |-> Null]

\* (mutant of extract_list) the last of the links whose rel is next is followed
extract_list_last_next(type, json) ==
    LET links == DictGet(json, type.resource_links_key, <<>>)
        nexts == {i \in DOMAIN links : links[i].rel = "next"}
    IN  IF type.resource_list_key \notin DOMAIN json
        THEN Raised(KeyError(type.resource_list_key))
        ELSE Extracted(json[type.resource_list_key],
                       IF nexts = {} THEN Null
                       ELSE links[CHOOSE i \in nexts : \A j \in nexts : j <= i].href)

\* (mutant of extract_list) the first link is followed, whatever its rel
extract_list_first_link(type, json) ==
    LET links == DictGet(json, type.resource_links_key, <<>>)
    IN  IF type.resource_list_key \notin DOMAIN json
        THEN Raised(KeyError(type.resource_list_key))
        ELSE Extracted(json[type.resource_list_key],
                       IF links = <<>> THEN Null ELSE links[1].href)

\* ResourceManager.extract_list of core.py: the links are read in their order
\* up to the first whose rel is next; a link read without rel, and a next
\* link without href, is a KeyError
extract_list(type, json) ==
    LET links == DictGet(json, type.resource_links_key, <<>>)
        at    == FindFrom([i \in 1..Len(links) |->
                              IF "rel" \in DOMAIN links[i] THEN links[i].rel ELSE "KeyError"],
                          {"next", "KeyError"}, 1)
    IN  IF type.resource_list_key \notin DOMAIN json
        THEN Raised(KeyError(type.resource_list_key))
        ELSE IF at > Len(links) THEN Extracted(json[type.resource_list_key], Null)
        ELSE IF "rel" \notin DOMAIN links[at] THEN Raised(KeyError("rel"))
        ELSE IF "href" \notin DOMAIN links[at] THEN Raised(KeyError("href"))
        ELSE Extracted(json[type.resource_list_key], links[at].href)

\* (mutant of awx_extract_list) the previous field is followed when there is one
awx_extract_list_previous(json) ==
    IF "results" \notin DOMAIN json THEN Raised(KeyError("results"))
    ELSE Extracted(json["results"],
                   IF DictGet(json, "previous", Null) # Null THEN json["previous"]
                   ELSE DictGet(json, "next", Null))

\* ResourceManager.extract_list of awx/api.py
awx_extract_list(json) ==
    IF "results" \notin DOMAIN json THEN Raised(KeyError("results"))
    ELSE Extracted(json["results"], DictGet(json, "next", Null))

\* (mutant of extract_one) the body is the entity, whatever the type declares
extract_one_whole_body(type, json) == Extracted(json, Null)

\* ResourceManager.extract_one
extract_one(type, json) ==
    IF Given(type.resource_key)
    THEN IF type.resource_key \in DOMAIN json
         THEN Extracted(json[type.resource_key], Null)
         ELSE Raised(KeyError(type.resource_key))
    ELSE Extracted(json, Null)

\* rackit.ResourceManager.prepare_params: the field mapping as it goes on the wire
rackit_prepare_params(params) == params

\* (mutant of prepare_params) the field mapping is sent as it is
prepare_params_unwrapped(type, params) == rackit_prepare_params(params)

\* ResourceManager.prepare_params
prepare_params(type, params) ==
    LET prepared == rackit_prepare_params(params)
    IN  IF Given(type.resource_key)
        THEN DictSet(EmptyDict, type.resource_key, prepared)
        ELSE prepared

\* UnmanagedResource._fetch, json being what the _fetch of rackit returns
UnmanagedResource_fetch(opts, json) ==
    IF DictGet(opts, "resource_key", NoKey) \in DOMAIN json
    THEN Extracted(json[opts.resource_key], Null)
    ELSE Raised(KeyError(DictGet(opts, "resource_key", NoKey)))

\* rackit.ResourceManager.all
all(type) == [endpoint |-> type.endpoint, partial |-> FALSE]

\* (mutant of all_detail) the entities of a list are never marked partial
all_detail_never_partial(type, detail) ==
    [endpoint |-> IF detail THEN type.endpoint \o <<"/", "d", "e", "t", "a", "i", "l">>
                  ELSE type.endpoint,
     partial  |-> FALSE]

\* ResourceWithDetailManager.all
all_detail(type, detail) ==
    [endpoint |-> IF detail THEN type.endpoint \o <<"/", "d", "e", "t", "a", "i", "l">>
                  ELSE type.endpoint,
     partial  |-> ~detail]

AbsentGen ==
    [st |-> "absent", api |-> "", type |-> Flavor, session |-> 0,
     next_url |-> Null, yielded |-> <<>>, partial |-> FALSE,
     \* history, not state of the program:
     service |-> NoService,  \* the Service whose manager lists, if one does
     kwargs |-> Null,        \* the arguments all() was called with, if with any
     log |-> <<>>]           \* the requests sent and the answers received

\* the listings the caller may start: of the projects of a Connection, of the
\* flavors of its compute service, or of the jobs of the AWX connection
Listings ==
    {[api |-> "openstack", type |-> AuthProject, session |-> conns[c].session,
      service |-> NoService, kwargs |-> Null,
      base |-> conns[c].auth_url, call |-> all(AuthProject)] : c \in held}
    \cup {[api |-> "openstack", type |-> Flavor,
           session |-> services[conns[c].cache["compute"]].session,
           service |-> conns[c].cache["compute"],
           base |-> services[conns[c].cache["compute"]].url,
           kwargs |-> [detail |-> detail],
           call |-> all_detail(Flavor, detail)] :
             c \in {d \in held : "compute" \in DOMAIN conns[d].cache},
             detail \in BOOLEAN}
    \cup {[api |-> "awx", type |-> Job, session |-> AwxSession, base |-> AwxUrl,
           service |-> NoService, kwargs |-> Null, call |-> all(Job)]}

FreeGen(g) == gens[g].st = "absent" /\ \A h \in GenIds : h < g => gens[h].st # "absent"

\* manager.all(): a generator, which has sent nothing yet
ListStart ==
    /\ net.phase = "idle"
    /\ \A h \in GenIds : gens[h].st \in {"absent", "done"}
    /\ \E g \in GenIds, l \in Listings :
         /\ FreeGen(g)
         /\ gens' = [gens EXCEPT ![g] =
                [AbsentGen EXCEPT
                    !.st = "ready", !.api = l.api, !.type = l.type,
                    !.session = l.session, !.service = l.service,
                    !.kwargs = l.kwargs,
                    !.next_url = [base |-> l.base, path |-> l.call.endpoint, page |-> 0],
                    !.partial = l.call.partial]]
    /\ UNCHANGED <<conns, sessions, services, net, order, held>>
    /\ UNCHANGED pureVars

\* the auth of a session applied to a request it sends
SessionAuth(session, request) ==
    IF session = AwxSession
    THEN [request EXCEPT !.headers = DictSet(@, "Authorization", "Basic")]
    ELSE Connection_call(conns[sessions[session].auth], request)

\* rackit _fetch_all: while next_url, get the page at next_url
ListFetch ==
    /\ net.phase = "idle"
    /\ \E g \in GenIds :
         /\ gens[g].st = "ready"
         /\ LET req == SessionAuth(gens[g].session,
                           Request("GET", gens[g].next_url, Null, gens[g].session))
            IN  /\ net' = [phase |-> "request", op |-> <<"list", g>>, msg |-> req]
                /\ gens' = [gens EXCEPT
                               ![g].st = "waiting",
                               ![g].log = Append(@, [ev |-> "request", msg |-> req])]
    /\ UNCHANGED <<conns, sessions, services, order, held>>
    /\ UNCHANGED pureVars

\* the server answers a page request in the envelope of the API asked
PageRespond ==
    /\ net.phase = "request"
    /\ net.op[1] = "list"
    /\ LET g      == net.op[2]
           json   == IF gens[g].api = "awx" THEN AwxPage(net.msg.url)
                     ELSE OpenStackPage(gens[g].type, net.msg.url)
       IN  net' = [net EXCEPT !.phase = "response",
                              !.msg = HttpResponse(200, EmptyDict, json)]
    /\ UNCHANGED <<conns, sessions, services, gens, order, held>>
    /\ UNCHANGED pureVars

\* rackit _fetch_all: data, next_url = extract_list(response), yield the data
ListReceive ==
    /\ net.phase = "response"
    /\ net.op[1] = "list"
    /\ LET g   == net.op[2]
           ext == IF gens[g].api = "awx" THEN awx_extract_list(net.msg.json)
                  ELSE extract_list(gens[g].type, net.msg.json)
       IN  gens' = [gens EXCEPT
                       ![g].yielded = @ \o ext.data,
                       ![g].next_url = ext.next_url,
                       ![g].st = IF ext.raised # NoError THEN "failed"
                                 ELSE IF ext.next_url = Null THEN "done" ELSE "ready",
                       ![g].log = Append(@, [ev |-> "response", msg |-> net.msg])]
    /\ net' = Idle
    /\ UNCHANGED <<conns, sessions, services, order, held>>
    /\ UNCHANGED pureVars

----------------------------------------------------------------------------
(* Envelopes and options, applied to the values they may be given           *)

\* a dict with the entry k: v, unless v is Absent
Absent == <<"absent">>
With(d, k, v) == IF v = Absent THEN d ELSE DictSet(d, k, v)

\* the Meta a resource class may declare
Metas ==
    {With(With(With(With(EmptyDict, "endpoint", e), "resource_list_key", l),
               "resource_links_key", n), "resource_key", r) :
        e \in {Absent, <<>>, <<"/">>, <<"/", "f", "l", "a", "v", "o", "r", "s">>, <<"/", "j", "o", "b", "s", "/">>,
               <<"/", "a", "u", "t", "h", "/", "p", "r", "o", "j", "e", "c", "t", "s">>},
        l \in {Absent, <<"p", "r", "o", "j", "e", "c", "t", "s">>},
        n \in {Absent, <<"l", "i", "n", "k", "s">>},
        r \in {Absent, NoKey, <<"i", "t", "e", "m">>}}

\* a resource class is defined: its options are made from its Meta
Options ==
    /\ call.op = "ResourceOptions"
    /\ call.st = "called"
    /\ call' = Returned(call, ResourceOptions(call.args))
    /\ UNCHANGED <<objVars, dicts, auths>>

PageUrl(page) == [base |-> AwxUrl, path |-> <<>>, page |-> page]

\* the bodies a server may answer a list request for a type with: conforming
\* to the convention of the type, and not
ListBodies(type) ==
    LET entries  == DictSet(EmptyDict, type.resource_list_key, <<11, 12>>)
        links(l) == DictSet(entries, type.resource_links_key, l)
    IN  {EmptyDict,
         entries,
         links(<<[rel |-> "next", href |-> PageUrl(2)]>>),
         links(<<[rel |-> "prev", href |-> PageUrl(1)], [rel |-> "next", href |-> PageUrl(3)]>>),
         links(<<[rel |-> "prev", href |-> PageUrl(1)]>>),
         links(<<[href |-> PageUrl(2)]>>),
         links(<<[rel |-> "next"]>>),
         DictSet(EmptyDict, type.resource_links_key,
                 <<[rel |-> "next", href |-> PageUrl(2)]>>),
         DictSet(EmptyDict, <<"i", "t", "e", "m", "s">>, <<11, 12>>)}

AwxListBodies ==
    {EmptyDict,
     [results |-> <<11, 12>>],
     [results |-> <<11, 12>>, next |-> Null],
     [results |-> <<11, 12>>, next |-> PageUrl(2)],
     [next |-> PageUrl(2)],
     [count |-> 2, next |-> Null]}

\* the bodies a server may answer the request for one entity with
EntityBodies(type) ==
    {EmptyDict,
     DictSet(EmptyDict, type.resource_key, [id |-> 11]),
     DictSet(EmptyDict, type.resource_list_key, <<[id |-> 11]>>),
     DictSet(EmptyDict, <<"i", "d">>, 11)}

\* the types single entities are extracted for; the last one derives an empty
\* resource_key from its endpoint
EntityTypes == {AuthProject, Flavor, Image, ResourceOptions([endpoint |-> <<"/", "s">>])}

\* the options of the unmanaged resources: Limits, and one without endpoint
UnmanagedOptions == {Limits, UnmanagedResourceOptions(EmptyDict)}

ExtractList ==
    /\ call.op = "extract_list"
    /\ call.st = "called"
    /\ call' = Returned(call, extract_list(call.args.type, call.args.json))
    /\ UNCHANGED <<objVars, dicts, auths>>

AwxExtractList ==
    /\ call.op = "awx_extract_list"
    /\ call.st = "called"
    /\ call' = Returned(call, awx_extract_list(call.args.json))
    /\ UNCHANGED <<objVars, dicts, auths>>

\* the field mappings a caller creates or updates an entity with; the last
\* one has a field with the name of the resource_key of Flavor
FieldMappings ==
    {EmptyDict,
     DictSet(EmptyDict, <<"n", "a", "m", "e">>, "web"),
     DictSet(DictSet(EmptyDict, <<"f", "l", "a", "v", "o", "r">>, "m1"), <<"r", "a", "m">>, "1G")}

PrepareParams ==
    /\ call.op = "prepare_params"
    /\ call.st = "called"
    /\ call' = Returned(call, prepare_params(call.args.type, call.args.params))
    /\ UNCHANGED <<objVars, dicts, auths>>

\* a server answers a write with a body equal to the body it was sent, and
\* the entity is extracted from it
Echo ==
    /\ call.op = "prepare_params"
    /\ call.st = "returned"
    /\ call' = Called("extract_one",
                      [type |-> call.args.type, json |-> call.result,
                       prepared |-> rackit_prepare_params(call.args.params)])
    /\ UNCHANGED <<objVars, dicts, auths>>

ExtractOne ==
    /\ call.op = "extract_one"
    /\ call.st = "called"
    /\ call' = Returned(call, extract_one(call.args.type, call.args.json))
    /\ UNCHANGED <<objVars, dicts, auths>>

\* the Meta an unmanaged resource class may declare: that of Limits, an
\* endpoint with slashes around it, and a resource_key of its own
UnmanagedMetas ==
    {LimitsMeta,
     [endpoint |-> <<"/", "v", "a", "r", "i", "a", "b", "l", "e", "_", "d", "a", "t", "a", "/">>],
     [endpoint |-> <<"/", "l", "i", "m", "i", "t", "s">>, resource_key |-> <<"a", "b", "s", "o", "l", "u", "t", "e">>]}

\* the documents a server may answer the request for an unmanaged resource with
Documents ==
    {DictSet(EmptyDict, k, [maxTotalCores |-> 20]) :
        k \in {<<"l", "i", "m", "i", "t", "s">>, <<"v", "a", "r", "i", "a", "b", "l", "e", "_", "d", "a", "t", "a">>, <<"a", "b", "s", "o", "l", "u", "t", "e">>, <<"l", "i", "m", "i", "t">>}}
    \cup {DictSet(DictSet(EmptyDict, <<"l", "i", "m", "i", "t", "s">>, [maxTotalCores |-> 20]),
                  <<"a", "b", "s", "o", "l", "u", "t", "e">>, [maxTotalCores |-> 40])}

\* an unmanaged resource class is defined, its options are made from its
\* Meta, and it is fetched
UnmanagedDefine ==
    /\ call.op = "UnmanagedResourceOptions"
    /\ call.st = "called"
    /\ call' = Called("_fetch", [type |-> UnmanagedResourceOptions(call.args.meta),
                                 json |-> call.args.json, meta |-> call.args.meta])
    /\ UNCHANGED <<objVars, dicts, auths>>

UnmanagedFetch ==
    /\ call.op = "_fetch"
    /\ call.st = "called"
    /\ call' = Returned(call, UnmanagedResource_fetch(call.args.type, call.args.json))
    /\ UNCHANGED <<objVars, dicts, auths>>

----------------------------------------------------------------------------
(* The accessors of the Service subclasses (core.py 314-322 and 103-104) *)

\* Service.__init_subclass__ for a class with its attributes: whether an
\* accessor is attached to Connection, and under which name
Service_init_subclass(cls) ==
    IF Given(cls.catalog_type)
    THEN [attached |-> TRUE,
          name |-> IF "name" \in DOMAIN cls THEN cls.name
                   ELSE Replace(cls.catalog_type, "-", "_")]
    ELSE [attached |-> FALSE, name |-> NoKey]

\* the Service subclasses defined: those of compute.py, image.py and
\* orchestration.py, one whose catalog type has a hyphen, two that declare a
\* name, and one without catalog type
ServiceClasses ==
    {[catalog_type |-> <<"c", "o", "m", "p", "u", "t", "e">>],
     [catalog_type |-> <<"i", "m", "a", "g", "e">>],
     [catalog_type |-> <<"o", "r", "c", "h", "e", "s", "t", "r", "a", "t", "i", "o", "n">>],
     [catalog_type |-> <<"k", "e", "y", "-", "m", "a", "n", "a", "g", "e", "r">>],
     [catalog_type |-> <<"k", "e", "y", "-", "m", "a", "n", "a", "g", "e", "r">>, name |-> <<"k", "e", "y", "_", "m", "a", "n", "a", "g", "e", "r">>],
     [catalog_type |-> <<"v", "o", "l", "u", "m", "e", "v", "3">>, name |-> <<"b", "l", "o", "c", "k", "_", "s", "t", "o", "r", "e">>],
     [catalog_type |-> NoKey]}

\* a Service subclass is defined
InitSubclass ==
    /\ call.op = "__init_subclass__"
    /\ call.st = "called"
    /\ call' = Returned(call, Service_init_subclass(call.args))
    /\ UNCHANGED <<objVars, dicts, auths>>

\* related_manager reads the accessor for a resource of a Service subclass
\* that has been defined: getattr finds the accessor attached under that name
RelatedAccessor ==
    /\ call.op = "__init_subclass__"
    /\ call.st = "returned"
    /\ call.result.attached
    /\ LET service_name == ServiceName(call.args.catalog_type)
       IN  call' = [op |-> "related_manager.getattr", st |-> "returned",
                    args |-> [service_cls |-> call.args, attached |-> call.result.name],
                    result |-> [service_name |-> service_name,
                                raised |-> IF service_name = call.result.name THEN NoError
                                           ELSE AttributeError(service_name)]]
    /\ UNCHANGED <<objVars, dicts, auths>>

----------------------------------------------------------------------------
(* Operations of a Resource that change the entity on the server            *)
(* (compute.py 75-82, awx/api.py 64-65 and 80-100).  A Resource is its      *)
(* class, with the options of the class, and its field values.               *)

ServerMeta == [endpoint |-> <<"/", "s", "e", "r", "v", "e", "r", "s">>]
Server     == ResourceOptions(ServerMeta)

Instance(cls, opts, data) == [cls |-> cls, opts |-> opts, data |-> data]

\* the Resources the operations are called on, as they were fetched
AServer      == Instance("Server", Server, [id |-> 1, status |-> "SHUTOFF"])
AJobTemplate == Instance("JobTemplate", [endpoint |-> <<"/", "j", "o", "b", "_", "t", "e", "m", "p", "l", "a", "t", "e", "s", "/">>],
                         [id |-> 2, name |-> "deploy"])
AnInventory  == Instance("Inventory", [endpoint |-> <<"/", "i", "n", "v", "e", "n", "t", "o", "r", "i", "e", "s", "/">>],
                         [id |-> 3, name |-> "hosts"])

\* what the server answers the request of an operation on a Resource with: the
\* entity as it is afterwards, or the new entity, in the envelope of the class
Answers(self) ==
    LET entities == IF self.cls = "Server"
                    THEN {[id |-> 1, status |-> "ACTIVE"], [id |-> 1, status |-> "SHUTOFF"]}
                    ELSE {[id |-> 4, name |-> "deploy"], [id |-> 5, name |-> "copy"]}
    IN  {HttpResponse(IF self.cls = "Server" THEN 200 ELSE 201, EmptyDict,
             IF self.cls = "Server"
             THEN DictSet(EmptyDict, self.opts.resource_key, entity) ELSE entity) :
           entity \in entities}

\* the extract_one of the manager of the class of a Resource: that of core.py
\* for an OpenStack class, that of rackit (the body) for an AWX class
ExtractEntity(self, response) ==
    IF "resource_key" \in DOMAIN self.opts
    THEN extract_one(self.opts, response.json).data
    ELSE response.json

\* rackit Resource._action and ResourceManager.action: the request is sent and
\* a new Resource is made from the response; the Resource called on stays as
\* it is
_action(self, action, params, response) ==
    [sent     |-> [method |-> "POST", on |-> self.data.id, path |-> action, json |-> params],
     returned |-> Instance(self.cls, self.opts, ExtractEntity(self, response)),
     self     |-> self]

\* Server.start, Server.stop and Server.reboot: the result of _action is not
\* returned
Server_action(self, params, response) ==
    [_action(self, "action", params, response) EXCEPT !.returned = Null]

\* JobTemplate.launch
JobTemplate_launch(self, params, response) == _action(self, "launch", params, response)

\* InventoryManager.copy, that Inventory.copy calls with the Resource itself
InventoryManager_copy(resource_or_key, name, response) ==
    [sent     |-> [method |-> "POST", on |-> resource_or_key.data.id, path |-> "copy",
                   json |-> [name |-> name]],
     returned |-> Instance(resource_or_key.cls, resource_or_key.opts,
                           ExtractEntity(resource_or_key, response)),
     self     |-> resource_or_key]

ServerStart ==
    /\ call.op = "Server.start"
    /\ call.st = "called"
    /\ call' = Returned(call, Server_action(call.args.self, [os_start |-> Null],
                                            call.args.response))
    /\ UNCHANGED <<objVars, dicts, auths>>

ServerStop ==
    /\ call.op = "Server.stop"
    /\ call.st = "called"
    /\ call' = Returned(call, Server_action(call.args.self, [os_stop |-> Null],
                                            call.args.response))
    /\ UNCHANGED <<objVars, dicts, auths>>

ServerReboot ==
    /\ call.op = "Server.reboot"
    /\ call.st = "called"
    /\ call' = Returned(call, Server_action(call.args.self,
                                            [reboot |-> [type |-> call.args.reboot_type]],
                                            call.args.response))
    /\ UNCHANGED <<objVars, dicts, auths>>

JobTemplateLaunch ==
    /\ call.op = "JobTemplate.launch"
    /\ call.st = "called"
    /\ call' = Returned(call, JobTemplate_launch(call.args.self, call.args.params,
                                                 call.args.response))
    /\ UNCHANGED <<objVars, dicts, auths>>

InventoryCopy ==
    /\ call.op = "Inventory.copy"
    /\ call.st = "called"
    /\ call' = Returned(call, InventoryManager_copy(call.args.self, call.args.name,
                                                    call.args.response))
    /\ UNCHANGED <<objVars, dicts, auths>>

\* the calls of these operations
Operations ==
    {Called(op, [self |-> AServer, response |-> response]) :
        op \in {"Server.start", "Server.stop"}, response \in Answers(AServer)}
    \cup {Called("Server.reboot",
                 [self |-> AServer, reboot_type |-> t, response |-> response]) :
            t \in {"SOFT", "HARD"}, response \in Answers(AServer)}
    \cup {Called("JobTemplate.launch",
                 [self |-> AJobTemplate, params |-> params, response |-> response]) :
            params \in {EmptyDict, [limit |-> "web"]}, response \in Answers(AJobTemplate)}
    \cup {Called("Inventory.copy",
                 [self |-> AnInventory, name |-> name, response |-> response]) :
            name \in {"copy", "hosts"}, response \in Answers(AnInventory)}

----------------------------------------------------------------------------
(* The login view of the portal (views.py 108-152).  A request holds what   *)
(* the view reads: its method and parameters, the cloud sessions kept for   *)
(* the user so far, and what the user store, the memberships and the cloud  *)
(* provider answer.                                                          *)

MaxOrgs == 3

CloudServiceError(message) == [exc |-> "CloudServiceError", message |-> message]

\* provider.new_session('{}@{}'.format(username, org), password)
CloudSession(username, org, password) ==
    [user |-> <<username, "@", org>>, password |-> password]

\* what a view returns: the variables of the login form, or a redirect
Form == [kind |-> "form"]
HTTPSeeOther(location, headers) ==
    [kind |-> "redirect", location |-> location, headers |-> headers]

\* what login leaves: the cloud sessions of the request, the flash messages
\* added, whether the CSRF token was renewed, and the response or the error
Left(cloud_sessions, flash, new_csrf_token, response, raised) ==
    [cloud_sessions |-> cloud_sessions, flash |-> flash,
     new_csrf_token |-> new_csrf_token, response |-> response, raised |-> raised]

\* the loop over the organisations of the user, from the i-th on
RECURSIVE NewSessions(_, _, _)
NewSessions(request, i, cloud_sessions) ==
    IF i > Len(request.orgs) THEN [cloud_sessions |-> cloud_sessions, raised |-> NoError]
    ELSE IF request.orgs[i] \in request.failing
         THEN [cloud_sessions |-> cloud_sessions,
               raised |-> CloudServiceError(request.orgs[i])]
    ELSE NewSessions(request, i + 1,
             DictSet(cloud_sessions, request.orgs[i],
                     CloudSession(request.params.username, request.orgs[i],
                                  request.params.password)))

\* (mutant of login) the cloud sessions are not cleared when a session fails
login_keep_opened(request) ==
    IF request.method # "POST"
    THEN Left(request.cloud_sessions, <<>>, FALSE, Form, NoError)
    ELSE IF "username" \notin DOMAIN request.params
         THEN Left(EmptyDict, <<>>, FALSE, Null, KeyError("username"))
    ELSE IF "password" \notin DOMAIN request.params
         THEN Left(EmptyDict, <<>>, FALSE, Null, KeyError("password"))
    ELSE IF ~request.authenticate
         THEN Left(EmptyDict, <<"Invalid credentials">>, FALSE, Form, NoError)
    ELSE LET opened == NewSessions(request, 1, EmptyDict)
         IN  IF opened.raised # NoError
             THEN Left(opened.cloud_sessions, <<opened.raised.message>>, FALSE, Form, NoError)
             ELSE Left(opened.cloud_sessions, <<>>, TRUE,
                       HTTPSeeOther("dashboard", [remember |-> request.params.username]),
                       NoError)

\* login
login(request) ==
    IF request.method # "POST"
    THEN Left(request.cloud_sessions, <<>>, FALSE, Form, NoError)
    ELSE IF "username" \notin DOMAIN request.params
         THEN Left(EmptyDict, <<>>, FALSE, Null, KeyError("username"))
    ELSE IF "password" \notin DOMAIN request.params
         THEN Left(EmptyDict, <<>>, FALSE, Null, KeyError("password"))
    ELSE IF ~request.authenticate
         THEN Left(EmptyDict, <<"Invalid credentials">>, FALSE, Form, NoError)
    ELSE LET opened == NewSessions(request, 1, EmptyDict)
         IN  IF opened.raised # NoError
             THEN Left(EmptyDict, <<opened.raised.message>>, FALSE, Form, NoError)
             ELSE Left(opened.cloud_sessions, <<>>, TRUE,
                       HTTPSeeOther("dashboard", [remember |-> request.params.username]),
                       NoError)

\* the organisations a user may belong to
Orgs == {"a", "b", "c", "d"}

\* the requests to /login: with the cloud sessions of an earlier login or
\* none, with and without the parameters, of a user the user store accepts or
\* not, who belongs to up to MaxOrgs organisations, for some of which the
\* provider raises a CloudServiceError
LoginRequests ==
    {[method |-> method, params |-> params, cloud_sessions |-> before,
      authenticate |-> authenticate, orgs |-> orgs, failing |-> failing] :
        method \in {"GET", "POST"},
        params \in {[username |-> "alice", password |-> "pw"], [password |-> "pw"],
                    [username |-> "alice"]},
        before \in {EmptyDict,
                    DictSet(EmptyDict, "a", CloudSession("bob", "a", "old")),
                    DictSet(DictSet(EmptyDict, "a", CloudSession("alice", "a", "pw")),
                            "d", CloudSession("alice", "d", "pw"))},
        authenticate \in BOOLEAN,
        orgs \in {o \in UNION {[1..n -> Orgs \ {"d"}] : n \in 0..MaxOrgs} :
                     \A i, j \in DOMAIN o : i # j => o[i] # o[j]},
        failing \in SUBSET (Orgs \ {"d"})}

Login ==
    /\ call.op = "login"
    /\ call.st = "called"
    /\ call' = Returned(call, login(call.args))
    /\ UNCHANGED <<objVars, dicts, auths>>

----------------------------------------------------------------------------
(* The sessions of a provider as context managers (provider/base.py 93-115  *)
(* and 604-626; both classes have the same four methods).  close does       *)
(* nothing in the base classes; a session records the calls of close made   *)
(* on it.  A with-block is run in the steps of the with statement:          *)
(* __enter__, the body, __exit__ with the exception of the body, and the    *)
(* exception raised again unless __exit__ returned a true value.            *)

SessionClasses == {"UnscopedSession", "ScopedSession"}

ASession(cls) == [cls |-> cls, closes |-> 0]

close(self) == [self EXCEPT !.closes = @ + 1]

__enter__(self) == self

\* (mutant of __exit__) the exception of the block is suppressed
__exit___suppress(self, exc_value) == [self |-> close(self), returned |-> "True"]

\* (mutant of __exit__) the session is not closed
__exit___no_close(self, exc_value) == [self |-> self, returned |-> None]

__exit__(self, exc_value) == [self |-> close(self), returned |-> None]

__del__(self) == close(self)

\* the bodies of a with-block: they may close the session themselves, and
\* end normally or raise
Bodies ==
    {[closes |-> closes, raised |-> raised] :
        closes \in BOOLEAN,
        raised \in {NoError, KeyError("id"), CloudServiceError("quota")}}

\* with cls(...) as target: body
WithEnter ==
    /\ call.op = "with"
    /\ call.st = "called"
    /\ call' = Called("with.body", [call.args EXCEPT !.target = __enter__(call.args.self)])
    /\ UNCHANGED <<objVars, dicts, auths>>

WithBody ==
    /\ call.op = "with.body"
    /\ call.st = "called"
    /\ LET target == call.args.target
           after  == IF call.args.body.closes THEN close(target) ELSE target
       IN  call' = Called("with.__exit__",
                          [call.args EXCEPT !.self = after, !.target = after,
                                            !.raised = call.args.body.raised])
    /\ UNCHANGED <<objVars, dicts, auths>>

WithExit ==
    /\ call.op = "with.__exit__"
    /\ call.st = "called"
    /\ LET exit == __exit__(call.args.self, call.args.raised)
       IN  call' = [op |-> "with", st |-> "returned", args |-> call.args,
                    result |-> [self   |-> exit.self,
                                raised |-> IF exit.returned \in {None, "False"}
                                           THEN call.args.raised ELSE NoError]]
    /\ UNCHANGED <<objVars, dicts, auths>>

\* the session is garbage collected after the block
Del ==
    /\ call.op = "with"
    /\ call.st = "returned"
    /\ call' = [call EXCEPT !.op = "__del__", !.result.self = __del__(call.result.self)]
    /\ UNCHANGED <<objVars, dicts, auths>>

----------------------------------------------------------------------------
(* Error messages (core.py 332-356).  The search depends on the kind of a   *)
(* JSON value and on the order of the keys of an object, so a JSON value is *)
(* tagged here, and an object is the sequence of its key-value pairs.       *)

MaxDepth == 3

JStr(s)     == [t |-> "str", s |-> s]
JNum(n)     == [t |-> "num", n |-> n]
JNull       == [t |-> "null"]        \* JSON null, Python's None
JArr(elems) == [t |-> "arr", elems |-> elems]
JObj(pairs) == [t |-> "obj", pairs |-> pairs]
Pair(k, v)  == [k |-> k, v |-> v]

\* bool(value)
Truthy(value) ==
    CASE value.t = "str"  -> value.s # ""
      [] value.t = "num"  -> value.n # 0
      [] value.t = "null" -> FALSE
      [] value.t = "arr"  -> value.elems # <<>>
      [] value.t = "obj"  -> value.pairs # <<>>
      [] OTHER            -> TRUE

\* the keys of an object in their order, and 'key in obj'
KeysOf(obj) == [i \in 1..Len(obj.pairs) |-> obj.pairs[i].k]
HasKey(obj, key) == \E i \in 1..Len(obj.pairs) : obj.pairs[i].k = key

\* obj[key]
Item(obj, key) == obj.pairs[FindFrom(KeysOf(obj), {key}, 1)].v

\* Service._find_message; None when it runs to its end
RECURSIVE _find_message(_)
RECURSIVE _find_message_in(_, _)

\* (mutant of _find_message) a message of the object itself that is false is
\* passed over, and the values of the object are searched
_find_message_skip_empty(obj) ==
    IF obj.t # "obj" THEN JNull
    ELSE IF HasKey(obj, "message") /\ Truthy(Item(obj, "message")) THEN Item(obj, "message")
    ELSE _find_message_in(obj.pairs, 1)

_find_message(obj) ==
    IF obj.t # "obj" THEN JNull
    ELSE IF HasKey(obj, "message") THEN Item(obj, "message")
    ELSE _find_message_in(obj.pairs, 1)

\* the loop over obj.values(), from the i-th on
_find_message_in(pairs, i) ==
    IF i > Len(pairs) THEN JNull
    ELSE LET message == _find_message(pairs[i].v)
         IN  IF Truthy(message) THEN message ELSE _find_message_in(pairs, i + 1)

\* an error response: its text, and what response.json() gives
NotJson == [t |-> "JSONDecodeError"]
TextResponse(text) == [text |-> [t |-> "text", raw |-> text], json |-> NotJson]
JsonResponse(value) == [text |-> [t |-> "text", of |-> value], json |-> value]

\* Service.extract_error_message
extract_error_message(response) ==
    IF response.json = NotJson THEN response.text
    ELSE LET message == _find_message(response.json)
         IN  IF Truthy(message) THEN message ELSE response.text

\* the JSON values of the error bodies: scalars, and up to a depth arrays of
\* one element and objects of one or two fields
Scalars == {JStr("x"), JStr(""), JNull}
Keys    == {"message", "a"}
Shallow == {JStr("y"), JObj(<<Pair("message", JStr("y"))>>)}

RECURSIVE Values(_)
Values(depth) ==
    IF depth = 0 THEN Scalars
    ELSE LET sub == Values(depth - 1)
         IN  Scalars
             \cup {JArr(<<>>), JObj(<<>>)}
             \cup {JArr(<<v>>) : v \in sub}
             \cup {JObj(<<Pair(k, v)>>) : k \in Keys, v \in sub}
             \cup {JObj(<<Pair(kv[1], kv[3]), Pair(kv[2], kv[4])>>) :
                     kv \in {x \in Keys \X Keys \X sub \X Shallow : x[1] # x[2]}}
             \cup {JObj(<<Pair(kv[1], kv[3]), Pair(kv[2], kv[4])>>) :
                     kv \in {x \in Keys \X Keys \X Shallow \X sub : x[1] # x[2]}}

\* the error bodies of the spec's examples
BadRequest == JObj(<<Pair("error", JObj(<<Pair("code", JNum(400)),
                                          Pair("message", JStr("bad request"))>>))>>)
Deep       == JObj(<<Pair("foo", JObj(<<Pair("bar",
                                          JObj(<<Pair("message", JStr("deep"))>>))>>))>>)

ErrorResponses ==
    {TextResponse("oops")}
    \cup {JsonResponse(value) : value \in Values(MaxDepth) \cup {BadRequest, Deep}}

\* a Service extracts the message of an error response
ExtractErrorMessage ==
    /\ call.op = "extract_error_message"
    /\ call.st = "called"
    /\ call' = Returned(call, extract_error_message(call.args))
    /\ UNCHANGED <<objVars, dicts, auths>>

----------------------------------------------------------------------------
(* AuthParams as objects (core.py 19-66).  A dict is an object: the value   *)
(* of a key is a string, a list or a reference to another dict, and a dict  *)
(* that two objects refer to is one dict.  The caller holds the dicts it    *)
(* made and the dicts as_dict returned to it, and reaches the dicts these   *)
(* refer to.                                                                 *)

MaxDicts == 13
MaxAuths == 4
MaxHeld  == 2

Str(s)  == [val |-> s]
List(l) == [seq |-> l]
Ref(n)  == [ref |-> n]

\* a dict object; caller: the caller holds a reference to it
Dict(items, caller) == [items |-> items, caller |-> caller]

\* the value of a dict object, with the values of the dicts it refers to
RECURSIVE Payload(_, _)
Payload(heap, n) ==
    [k \in DOMAIN heap[n].items |->
        LET cell == heap[n].items[k]
        IN  IF "ref" \in DOMAIN cell THEN Payload(heap, cell.ref)
            ELSE IF "val" \in DOMAIN cell THEN cell.val
            ELSE cell.seq]

\* the dict objects that are reached from a dict object
RECURSIVE Reach(_, _)
Reach(heap, n) ==
    {n} \cup UNION {Reach(heap, heap[n].items[k].ref) :
                      k \in {x \in DOMAIN heap[n].items : "ref" \in DOMAIN heap[n].items[x]}}

\* the dicts the caller holds, and the dicts it reaches
Held(heap) == {n \in DOMAIN heap : heap[n].caller}

CallerReach(heap) == UNION {Reach(heap, n) : n \in Held(heap)}

\* dict.copy(): a new dict with the same values, references included
Copy(heap, n) == Dict(heap[n].items, FALSE)

\* AuthParams.__init__: self.params = params or dict(); params is a reference,
\* or 0 for None, and an empty dict is false
AuthParams_init(heap, params) ==
    IF params = 0 \/ heap[params].items = EmptyDict
    THEN [heap |-> Append(heap, Dict(EmptyDict, FALSE)), params |-> Len(heap) + 1]
    ELSE [heap |-> heap, params |-> params]

\* the object that AuthParams.__init__ leaves, with its payload at that time
\* and the call that made it
AuthParamsObject(made, op, base, args) ==
    [params |-> made.params, made |-> Payload(made.heap, made.params),
     op |-> op, base |-> base, args |-> args]

\* AuthParams.use_token on the object with the dict self_params
AuthParams_use_token(heap, self_params, token) ==
    LET n == Len(heap)
        params == Copy(heap, self_params)
        id == Dict([id |-> Str(token)], FALSE)
        identity == Dict([methods |-> List(<<"token">>), token |-> Ref(n + 2)], FALSE)
        updated == [params EXCEPT !.items = DictSet(@, "identity", Ref(n + 3))]
    IN  AuthParams_init(heap \o <<updated, id, identity>>, n + 1)

\* AuthParams.use_password
AuthParams_use_password(heap, self_params, domain, username, password) ==
    LET n == Len(heap)
        params == Copy(heap, self_params)
        dom == Dict([name |-> Str(domain)], FALSE)
        user == Dict([domain |-> Ref(n + 2), name |-> Str(username),
                      password |-> Str(password)], FALSE)
        pass == Dict([user |-> Ref(n + 3)], FALSE)
        identity == Dict([methods |-> List(<<"password">>), password |-> Ref(n + 4)], FALSE)
        updated == [params EXCEPT !.items = DictSet(@, "identity", Ref(n + 5))]
    IN  AuthParams_init(heap \o <<updated, dom, user, pass, identity>>, n + 1)

\* AuthParams.use_project_id
AuthParams_use_project_id(heap, self_params, project_id) ==
    LET n == Len(heap)
        params == Copy(heap, self_params)
        project == Dict([id |-> Str(project_id)], FALSE)
        scope == Dict([project |-> Ref(n + 2)], FALSE)
        updated == [params EXCEPT !.items = DictSet(@, "scope", Ref(n + 3))]
    IN  AuthParams_init(heap \o <<updated, project, scope>>, n + 1)

\* AuthParams.as_dict: the copy goes to the caller
AuthParams_as_dict(heap, self_params) ==
    Append(heap, Dict(heap[self_params].items, TRUE))

\* the dicts a caller writes: {} and {"scope": {"project": {"id": "p"}}}
NewDict ==
    /\ Len(dicts) + 3 <= MaxDicts
    /\ Cardinality(Held(dicts)) < MaxHeld
    /\ \/ dicts' = Append(dicts, Dict(EmptyDict, TRUE))
       \/ dicts' = dicts \o <<Dict([scope |-> Ref(Len(dicts) + 2)], TRUE),
                              Dict([project |-> Ref(Len(dicts) + 3)], FALSE),
                              Dict([id |-> Str("p")], FALSE)>>
    /\ UNCHANGED <<objVars, call, auths>>

\* AuthParams() and AuthParams(d), d a dict the caller holds
AuthNew ==
    /\ Len(auths) < MaxAuths
    /\ \E d \in {0} \cup Held(dicts) :
          LET made == AuthParams_init(dicts, d)
          IN  /\ Len(made.heap) <= MaxDicts
              /\ dicts' = made.heap
              /\ auths' = Append(auths, AuthParamsObject(made, "AuthParams", 0, [params |-> d]))
    /\ UNCHANGED <<objVars, call>>

UseToken ==
    /\ Len(auths) < MaxAuths
    /\ \E a \in DOMAIN auths, token \in {"t"} :
          LET made == AuthParams_use_token(dicts, auths[a].params, token)
          IN  /\ Len(made.heap) <= MaxDicts
              /\ dicts' = made.heap
              /\ auths' = Append(auths, AuthParamsObject(made, "use_token", a,
                                                         [token |-> token]))
    /\ UNCHANGED <<objVars, call>>

UsePassword ==
    /\ Len(auths) < MaxAuths
    /\ \E a \in DOMAIN auths :
          LET made == AuthParams_use_password(dicts, auths[a].params, "d", "u", "pw")
          IN  /\ Len(made.heap) <= MaxDicts
              /\ dicts' = made.heap
              /\ auths' = Append(auths, AuthParamsObject(made, "use_password", a,
                              [domain |-> "d", username |-> "u", password |-> "pw"]))
    /\ UNCHANGED <<objVars, call>>

UseProjectId ==
    /\ Len(auths) < MaxAuths
    /\ \E a \in DOMAIN auths, project_id \in {"x"} :
          LET made == AuthParams_use_project_id(dicts, auths[a].params, project_id)
          IN  /\ Len(made.heap) <= MaxDicts
              /\ dicts' = made.heap
              /\ auths' = Append(auths, AuthParamsObject(made, "use_project_id", a,
                                                         [project_id |-> project_id]))
    /\ UNCHANGED <<objVars, call>>

AsDict ==
    /\ Len(dicts) < MaxDicts
    /\ Cardinality(Held(dicts)) < MaxHeld
    /\ \E a \in DOMAIN auths : dicts' = AuthParams_as_dict(dicts, auths[a].params)
    /\ UNCHANGED <<objVars, call, auths>>

\* the caller writes to a dict it holds, d["extra"] = "evil", or to a dict it
\* reaches from one, as in d["scope"]["project"]["id"] = "evil"
SetItem ==
    /\ \E n \in CallerReach(dicts) :
         \E k \in (DOMAIN dicts[n].items \cap {"id"})
                    \cup (IF dicts[n].caller THEN {"extra"} ELSE {}) :
            /\ DictGet(dicts[n].items, k, Null) # Str("evil")
            /\ dicts' = [dicts EXCEPT ![n].items = DictSet(@, k, Str("evil"))]
    /\ UNCHANGED <<objVars, call, auths>>

----------------------------------------------------------------------------
(* Spec: the life of Connections and of their Services *)

InitObjects ==
    /\ conns = [c \in ConnIds |-> AbsentConn]
    /\ sessions = <<>>
    /\ services = EmptyDict
    /\ gens = [g \in GenIds |-> AbsentGen]
    /\ net = Idle
    /\ held = {}
    /\ dicts = <<>>
    /\ auths = <<>>

Init == InitObjects /\ order = <<1>> /\ call = NoCall

Next ==
    \/ NewConnection
    \/ ScopedConnection
    \/ AuthRespond
    \/ AuthReceive
    \/ Close
    \/ ServiceAccess
    \/ RelatedManager

Spec == Init /\ [][Next]_vars

----------------------------------------------------------------------------
(* SpecList: listings, by the AWX connection, by a Connection and by one     *)
(* Connection scoped from it, the authentication of both succeeding         *)

ListArgs == [auth_url |-> KeystoneUrlSlash, interface |-> "public", verify |-> TRUE]
ListProject == [isResource |-> FALSE, value |-> "p1"]

\* the identity service issues a token with CatalogA and an orchestration
\* service
ListAnswer(req, k) ==
    HttpResponse(201, DictSet(EmptyDict, "X-Subject-Token", TokenOf(k)),
        TokenBody(IF "scope" \in DOMAIN req.json.auth
                  THEN req.json.auth.scope.project.id ELSE DefaultProject,
                  Append(CatalogA, Entry("orchestration", << Ep("public", UrlPath) >>))))

ListConnect == Construct(ListArgs)
ListScope   == Scope({2}, ListProject)
ListAuthRespond ==
    /\ net.phase = "request"
    /\ net.op[1] = "auth"
    /\ Answer(ListAnswer(net.msg, net.op[2]))
ListAccess  == \E c \in ConnIds, name \in {"compute", "orchestration"} : Access(c, name)

InitList == InitObjects /\ order \in Orders /\ call = NoCall

NextList ==
    \/ ListConnect
    \/ ListScope
    \/ ListAuthRespond
    \/ AuthReceive
    \/ ListAccess
    \/ ListStart
    \/ ListFetch
    \/ PageRespond
    \/ ListReceive

SpecList == InitList /\ [][NextList]_vars

----------------------------------------------------------------------------
(* SpecCalls: the operations that take a value and return at once, applied  *)
(* to the values they may be given                                          *)

\* the calls made, each with the arguments it is given
Calls ==
    {Called("extract_error_message", response) : response \in ErrorResponses}
    \cup {Called("ResourceOptions", meta) : meta \in Metas}
    \cup Operations
    \cup UNION {{Called("extract_list", [type |-> type, json |-> json]) :
                    json \in ListBodies(type)} : type \in {AuthProject, Flavor, Image}}
    \cup {Called("awx_extract_list", [type |-> Job, json |-> json]) : json \in AwxListBodies}
    \cup UNION {{Called("extract_one", [type |-> type, json |-> json]) :
                    json \in EntityBodies(type)} : type \in EntityTypes}
    \cup {Called("UnmanagedResourceOptions", [meta |-> meta, json |-> json]) :
            meta \in UnmanagedMetas, json \in Documents}
    \cup {Called("__init_subclass__", cls) : cls \in ServiceClasses}
    \cup {Called("login", request) : request \in LoginRequests}
    \cup {Called("with", [self |-> ASession(cls), body |-> body,
                          target |-> Null, raised |-> NoError]) :
              cls \in SessionClasses, body \in Bodies}
    \cup {Called("prepare_params", [type |-> type, params |-> params]) :
            type \in EntityTypes, params \in FieldMappings}
    \cup UNION {{Called("_fetch", [type |-> opts, json |-> json]) :
                    json \in EntityBodies([resource_key |-> <<"l", "i", "m", "i", "t", "s">>,
                                           resource_list_key |-> <<"l", "i", "m", "i", "t">>])} :
                  opts \in UnmanagedOptions}

InitCalls ==
    /\ InitObjects
    /\ order = <<1>>
    /\ call \in Calls

NextCalls ==
    \/ ExtractErrorMessage
    \/ Options
    \/ ExtractList
    \/ AwxExtractList
    \/ PrepareParams
    \/ Echo
    \/ ExtractOne
    \/ Login
    \/ WithEnter
    \/ WithBody
    \/ WithExit
    \/ Del
    \/ InitSubclass
    \/ RelatedAccessor
    \/ UnmanagedDefine
    \/ UnmanagedFetch
    \/ ServerStart
    \/ ServerStop
    \/ ServerReboot
    \/ JobTemplateLaunch
    \/ InventoryCopy

SpecCalls == InitCalls /\ [][NextCalls]_vars

(* SpecAuth: the AuthParams objects a caller makes, and the dicts it holds *)

NextAuth ==
    \/ NewDict
    \/ AuthNew
    \/ UseToken
    \/ UsePassword
    \/ UseProjectId
    \/ AsDict
    \/ SetItem

SpecAuth == Init /\ [][NextAuth]_vars

----------------------------------------------------------------------------
(* Properties *)

AllAttrs == {"token", "username", "project_id", "endpoints"}
Created  == {c \in ConnIds : conns[c].st # "absent"}
Ready    == {c \in ConnIds : conns[c].st = "ready"}
SessionOpen(c) == sessions[conns[c].session].open

\* C1: whenever the construction of a Connection fails, for whatever reason,
\* its session has been closed, the error has reached the caller, and the
\* caller holds no Connection with only some of its attributes set.
C1_AllOrNothing ==
    \A c \in ConnIds :
        /\ conns[c].st = "failed" =>
              /\ ~SessionOpen(c)
              /\ conns[c].raised # NoError
              /\ c \notin held
        /\ c \in held => conns[c].attrs = AllAttrs

\* C2: when the authentication request of a Connection, initial or scoped, is
\* answered with a non-2xx status, the session is closed, the caller gets the
\* very ApiError that api_post raised, and one request was sent, no more.
C2_RejectionClosesAndPropagates ==
    \A c \in ConnIds :
        (/\ conns[c].st = "failed"
         /\ conns[c].answer.kind = "http"
         /\ conns[c].answer.status \notin 200..299)
        => /\ ~SessionOpen(c)
           /\ conns[c].raised = [exc |-> "ApiError", status |-> conns[c].answer.status]
           /\ Len(conns[c].sent) = 1
           /\ c \notin held

C2_Witness ==
    \E c \in ConnIds :
        /\ conns[c].parent # 0
        /\ conns[c].st = "failed"
        /\ conns[c].answer = HttpResponse(401, EmptyDict,
                                 [error |-> [code |-> 401, message |-> "denied"]])
        /\ ~SessionOpen(c)

\* C3: the authentication request of a Connection carries no X-Auth-Token
\* header (the hook leaves it as it is), and every request sent on its session
\* afterwards carries the token that this authentication obtained.
C3_TokenOnEveryLaterRequest ==
    /\ \A c \in ConnIds : \A i \in DOMAIN conns[c].sent :
           conns[c].sent[i].headers = EmptyDict
    /\ \A g \in GenIds : \A i \in DOMAIN gens[g].log :
           (gens[g].log[i].ev = "request" /\ gens[g].session # AwxSession)
           => LET c == sessions[gens[g].session].auth
              IN  /\ gens[g].log[i].msg.session = conns[c].session
                  /\ DOMAIN gens[g].log[i].msg.headers = {"X-Auth-Token"}
                  /\ gens[g].log[i].msg.headers["X-Auth-Token"]
                         = conns[c].answer.headers["X-Subject-Token"]

C3_Witness ==
    \E g \in GenIds :
        /\ gens[g].session # AwxSession
        /\ conns[sessions[gens[g].session].auth].parent # 0
        /\ Len(gens[g].log) >= 3
        /\ gens[g].log[3].msg.headers["X-Auth-Token"] = "t2"

\* the entries of the first k pages of the server's collection, in link order
RECURSIVE EntriesUpTo(_)
EntriesUpTo(k) == IF k = 0 THEN <<>> ELSE EntriesUpTo(k - 1) \o PageData(order[k])

Responses(g) == Len(gens[g].log) \div 2

\* C4: a listing yields the entries of the pages in link order, none twice and
\* none dropped: after k answers the entries of the first k pages, and when it
\* ends those of all pages; every listing starts at the first page and yields
\* that same sequence.
C4_ListingIsConcatenation ==
    \A g \in GenIds :
        /\ Responses(g) <= Len(order)
        /\ gens[g].yielded = EntriesUpTo(Responses(g))
        /\ gens[g].log # <<>> => gens[g].log[1].msg.url.page = 0
        /\ gens[g].st = "done" => /\ Responses(g) = Len(order)
                                  /\ gens[g].yielded = EntriesUpTo(Len(order))
        /\ \A h \in GenIds : (gens[g].st = "done" /\ gens[h].st = "done")
                                => gens[h].yielded = gens[g].yielded

C4_Witness ==
    /\ Len(order) = 3
    /\ gens[1].st = "done" /\ gens[2].st = "done"
    /\ gens[1].type = gens[2].type
    /\ gens[1].api = "openstack"
    /\ Len(gens[2].yielded) = 3

\* C5: the requests of one listing are sent one at a time, each after the
\* answer to the one before, and each but the first goes to the next URL of
\* that answer: the k-th request asks for the k-th page in the server's order.
C5_PagesInServerOrder ==
    \A g \in GenIds : \A i \in DOMAIN gens[g].log :
        LET e == gens[g].log[i]
        IN  /\ e.ev = IF i % 2 = 1 THEN "request" ELSE "response"
            /\ (i % 2 = 1 /\ i > 1) =>
                  /\ (i + 1) \div 2 <= Len(order)
                  /\ e.msg.url = [gens[g].log[1].msg.url EXCEPT
                                     !.page = order[(i + 1) \div 2]]
            /\ (i = Len(gens[g].log) /\ i % 2 = 1) =>
                  /\ gens[g].st = "waiting"
                  /\ net.phase # "idle" /\ net.op = <<"list", g>>

C5_Witness ==
    \E g \in GenIds :
        /\ gens[g].api = "awx"
        /\ order = <<1, 3, 2>>
        /\ Len(gens[g].log) = 6

\* the catalog of the answer that made Connection c, and its entries' endpoints
\* on the interface of c
CatalogOf(c) == DictGet(conns[c].answer.json.token, "catalog", <<>>)
OnInterface(c, entry) ==
    {i \in DOMAIN entry.endpoints : entry.endpoints[i].interface = conns[c].interface}
Min(S) == CHOOSE x \in S : \A y \in S : x <= y
Max(S) == CHOOSE x \in S : \A y \in S : x >= y
CatalogTypes(c) == {CatalogOf(c)[k].type : k \in DOMAIN CatalogOf(c)}

\* C6 as stated: endpoints holds, for each catalog entry with an endpoint on
\* the configured interface, that endpoint's URL (its path removed) under the
\* entry's type, and nothing else.
C6_EveryMatchingEntryStored ==
    \A c \in Ready :
        /\ \A k \in DOMAIN CatalogOf(c) :
              LET entry == CatalogOf(c)[k]
              IN  OnInterface(c, entry) # {} =>
                     /\ entry.type \in DOMAIN conns[c].endpoints
                     /\ conns[c].endpoints[entry.type]
                            \in {StripPath(entry.endpoints[i].url) : i \in OnInterface(c, entry)}
        /\ \A t \in DOMAIN conns[c].endpoints :
              \E k \in DOMAIN CatalogOf(c) :
                  CatalogOf(c)[k].type = t /\ OnInterface(c, CatalogOf(c)[k]) # {}

\* C6 amended: for each type, the last catalog entry of that type with an
\* endpoint on the configured interface decides: endpoints holds the URL (its
\* path removed) of the first such endpoint of that entry; a type without
\* such an entry is absent.
C6_LastMatchingEntryStored ==
    \A c \in Ready :
        \A t \in CatalogTypes(c) \cup DOMAIN conns[c].endpoints :
            LET ks == {k \in DOMAIN CatalogOf(c) :
                          /\ CatalogOf(c)[k].type = t
                          /\ OnInterface(c, CatalogOf(c)[k]) # {}}
            IN  IF ks = {} THEN t \notin DOMAIN conns[c].endpoints
                ELSE /\ t \in DOMAIN conns[c].endpoints
                     /\ LET entry == CatalogOf(c)[Max(ks)]
                        IN  conns[c].endpoints[t]
                                = StripPath(entry.endpoints[Min(OnInterface(c, entry))].url)

C6_Witness ==
    \E c \in Ready :
        /\ CatalogOf(c) = CatalogB
        /\ conns[c].interface = "public"
        /\ DOMAIN conns[c].endpoints = {"compute", "image"}
        /\ conns[c].endpoints["compute"] = <<"h", ":", "/", "/", "k", ":", "8">>

\* the catalog URLs that the URL stored under type t may come from: those of
\* the endpoints on the interface of c of the entries of type t
SourcesOf(c, t) ==
    UNION {{CatalogOf(c)[k].endpoints[i].url : i \in OnInterface(c, CatalogOf(c)[k])} :
              k \in {j \in DOMAIN CatalogOf(c) : CatalogOf(c)[j].type = t}}

\* C7 as stated: a stored URL is scheme, host and port only: it has no path,
\* no query string and no fragment.
C7_SchemeHostPortOnly ==
    \A c \in Ready : \A t \in DOMAIN conns[c].endpoints :
        LET stored == UrlSplit(conns[c].endpoints[t])
        IN  /\ stored.path = <<>>
            /\ stored.query = <<>>
            /\ stored.fragment = <<>>
            /\ \E url \in SourcesOf(c, t) :
                  /\ stored.scheme = UrlSplit(url).scheme
                  /\ stored.netloc = UrlSplit(url).netloc

\* C7 amended: a stored URL is a catalog URL without its path: it has the
\* scheme (in lower case), the host and port, the query string and the
\* fragment of the catalog URL, and no path.
C7_PathRemoved ==
    \A c \in Ready : \A t \in DOMAIN conns[c].endpoints :
        LET stored == UrlSplit(conns[c].endpoints[t])
        IN  /\ stored.path = <<>>
            /\ \E url \in SourcesOf(c, t) :
                  /\ stored.scheme = UrlSplit(url).scheme
                  /\ stored.netloc = UrlSplit(url).netloc
                  /\ stored.query = UrlSplit(url).query
                  /\ stored.fragment = UrlSplit(url).fragment
                  /\ Len(conns[c].endpoints[t]) = Len(url) - Len(UrlSplit(url).path)

C7_Witness ==
    \E c \in Ready :
        /\ CatalogOf(c) = CatalogB
        /\ conns[c].interface = "internal"
        /\ conns[c].endpoints["compute"] = <<"h", ":", "/", "/", "q", "?", "q">>

\* C8: a Connection made by scoped_connection has sent one authentication
\* request, whose payload is the token identity of the parent's token with
\* the scope of the project given, as an id or as a Resource with that id;
\* its auth_url, interface and verify are the parent's, and once it is
\* authenticated its project_id is the project given.
C8_ScopedConnection ==
    \A c \in Created :
        conns[c].parent # 0 =>
            LET parent == conns[conns[c].parent]
                given  == conns[c].given
                id     == IF given.isResource THEN given.id ELSE given.value
            IN  /\ Len(conns[c].sent) = 1
                /\ conns[c].sent[1].method = "POST"
                /\ conns[c].sent[1].json =
                       [auth |-> [identity |-> [methods |-> <<"token">>,
                                                token   |-> [id |-> parent.token]],
                                  scope    |-> [project |-> [id |-> id]]]]
                /\ conns[c].auth_url = parent.auth_url
                /\ conns[c].interface = parent.interface
                /\ conns[c].verify = parent.verify
                /\ conns[c].st = "ready" => conns[c].project_id = id

C8_Witness ==
    \E c \in Ready :
        /\ conns[c].parent # 0
        /\ conns[c].given.isResource
        /\ conns[c].interface = "internal"
        /\ conns[c].project_id = "p2"
        /\ conns[conns[c].parent].project_id # "p2"

\* the Service objects a Connection has cached
Cached(c) == {conns[c].cache[name] : name \in DOMAIN conns[c].cache}

\* a step changes Connection d, its session or one of its Services
Touches(d) ==
    \/ conns'[d] # conns[d]
    \/ /\ conns[d].st # "absent"
       /\ sessions'[conns[d].session] # sessions[conns[d].session]

\* C9: two Connections have different sessions and no Service in common, and
\* a step that creates, authenticates, uses or closes one Connection leaves
\* every other Connection the caller holds as it is: its token, project_id,
\* endpoints and cached Services, and its session, open if it was open.
C9_ScopedIsIndependent ==
    [][ /\ \A c \in ConnIds, d \in ConnIds :
              (c # d /\ conns'[c].st # "absent" /\ conns'[d].st # "absent")
              => /\ conns'[c].session # conns'[d].session
                 /\ {conns'[c].cache[n] : n \in DOMAIN conns'[c].cache}
                      \cap {conns'[d].cache[n] : n \in DOMAIN conns'[d].cache} = {}
        /\ \A c \in held, d \in ConnIds :
              (c # d /\ Touches(d))
              => /\ conns'[c] = conns[c]
                 /\ sessions'[conns[c].session] = sessions[conns[c].session]
                 /\ \A id \in Cached(c) : services'[id] = services[id]
      ]_vars

C9_Witness ==
    \E c \in Ready :
        /\ conns[c].parent # 0
        /\ ~SessionOpen(c)
        /\ SessionOpen(conns[c].parent)
        /\ conns[c].token # conns[conns[c].parent].token
        /\ Cached(c) # {} /\ Cached(conns[c].parent) # {}

\* C10: the Services constructed for a Connection are at most one per catalog
\* type; the accessor of a Connection returns the one cached for its name,
\* which is of the accessor's type and on the Connection's session; and no
\* Service is cached by two Connections.
C10_OneServicePerType ==
    /\ \A id1 \in DOMAIN services, id2 \in DOMAIN services :
           (/\ services[id1].session = services[id2].session
            /\ services[id1].catalog_type = services[id2].catalog_type) => id1 = id2
    /\ \A c \in Created :
           /\ \A name \in DOMAIN conns[c].cache :
                 /\ conns[c].cache[name] \in DOMAIN services
                 /\ services[conns[c].cache[name]].session = conns[c].session
                 /\ services[conns[c].cache[name]].catalog_type
                        = ServiceClass(name).catalog_type
           /\ \A name \in DOMAIN conns[c].access :
                 conns[c].access[name].raised = NoError
                 => /\ name \in DOMAIN conns[c].cache
                    /\ conns[c].access[name].id = conns[c].cache[name]
    /\ \A c \in Created, d \in Created : c # d => Cached(c) \cap Cached(d) = {}

C10_Witness ==
    \E c \in Ready, d \in Ready :
        /\ c # d
        /\ DOMAIN conns[c].cache = {"compute", "image"}
        /\ "compute" \in DOMAIN conns[d].cache
        /\ Cardinality(DOMAIN services) = 3

\* C11: the access of a service accessor on a Connection whose endpoints do
\* not hold the catalog type of that service ends in a KeyError for that type;
\* no Service of that type is constructed on the Connection's session, and
\* none is cached under the accessor's name.
C11_MissingTypeIsKeyError ==
    \A c \in Created : \A name \in DOMAIN conns[c].access :
        LET type == ServiceClass(name).catalog_type
        IN  type \notin DOMAIN conns[c].endpoints
            => /\ conns[c].access[name] = [raised |-> KeyError(type), id |-> NoService]
               /\ name \notin DOMAIN conns[c].cache
               /\ ~ \E id \in DOMAIN services :
                       /\ services[id].session = conns[c].session
                       /\ services[id].catalog_type = type

C11_Witness ==
    \E c \in Ready :
        /\ DOMAIN conns[c].endpoints = {"compute"}
        /\ "image" \in DOMAIN conns[c].access
        /\ conns[c].access["image"].raised = KeyError("image")
        /\ "compute" \in DOMAIN conns[c].cache


\* C12: a Service cached by a Connection has the session of that Connection,
\* whose auth hook is that Connection; so every request that a manager of the
\* Service sends goes out on the Connection's session and carries the
\* Connection's token, and no other credential.
C12_ServiceSharesSession ==
    /\ \A c \in Created : \A id \in Cached(c) :
           /\ services[id].session = conns[c].session
           /\ sessions[services[id].session].auth = c
    /\ \A g \in GenIds :
           gens[g].service # NoService =>
              \E c \in Ready :
                  /\ gens[g].service \in Cached(c)
                  /\ gens[g].session = conns[c].session
                  /\ \A i \in DOMAIN gens[g].log :
                         gens[g].log[i].ev = "request"
                         => /\ gens[g].log[i].msg.session = conns[c].session
                            /\ gens[g].log[i].msg.headers
                                   = DictSet(EmptyDict, "X-Auth-Token", conns[c].token)

C12_Witness ==
    \E g \in GenIds, c \in Ready :
        /\ conns[c].parent # 0
        /\ gens[g].service \in Cached(c)
        /\ gens[g].st = "done"
        /\ Len(gens[g].log) = 4
        /\ gens[g].log[3].msg.headers = DictSet(EmptyDict, "X-Auth-Token", "t2")
        /\ gens[g].log[3].msg.url.base = <<"h", ":", "/", "/", "a", ":", "8">>


\* the accessors of Connection under the name derived from the catalog type of
\* a resource class
AccessorsFor(resource_cls) ==
    {n \in ServiceNames : Spelling(n) = Replace(resource_cls.catalog_type, "-", "_")}

\* C13: a relation is resolved on the Connection that owns the resolving
\* Service, under the accessor name derived from the catalog type of the
\* target class. When the Connection has that accessor, its catalog has the
\* type and the Service has the class as a root resource, the result is the
\* manager of that root resource in the Service the Connection caches under
\* that name; otherwise no manager is returned and an error is raised that is
\* not an ApiError.
C13_RelationResolution ==
    call.op = "related_manager" =>
        LET c     == call.owner
            names == AccessorsFor(call.resource_cls)
            bound == {n \in names :
                        /\ ServiceClass(n).catalog_type \in DOMAIN conns[c].endpoints
                        /\ call.resource_cls.name \in RootResources(ServiceClass(n))}
        IN  /\ c = sessions[services[call.service].session].auth
            /\ IF bound # {}
               THEN /\ call.raised = NoError
                    /\ \E n \in bound :
                          /\ n \in DOMAIN conns[c].cache
                          /\ call.manager = [service  |-> conns[c].cache[n],
                                             resource |-> call.resource_cls.name]
                          /\ services[conns[c].cache[n]].session = conns[c].session
               ELSE /\ call.manager = Null
                    /\ call.raised.exc \in {"AttributeError", "KeyError", "RuntimeError"}
                    /\ names = {} <=> call.raised.exc = "AttributeError"

C13_Witness ==
    /\ call.op = "related_manager"
    /\ services[call.service].catalog_type = "compute"
    /\ call.resource_cls.name = "Image"
    /\ call.raised = NoError
    /\ call.manager.service # call.service
    /\ services[call.manager.service].catalog_type = "image"


\* the values directly inside a JSON value: of an object its fields' values in
\* key order, of an array its elements
Children(value) ==
    IF value.t = "obj" THEN [i \in 1..Len(value.pairs) |-> value.pairs[i].v]
    ELSE IF value.t = "arr" THEN value.elems
    ELSE <<>>

\* a field named message exists in the value, reached through objects only
RECURSIVE HasMessage(_)
HasMessage(value) ==
    /\ value.t = "obj"
    /\ \/ HasKey(value, "message")
       \/ \E i \in 1..Len(value.pairs) : HasMessage(value.pairs[i].v)

\* the value of the first such field: that of the object itself, or else of
\* the first of its values, in key order, that holds one
RECURSIVE FirstMessage(_)
FirstMessage(value) ==
    IF HasKey(value, "message") THEN Item(value, "message")
    ELSE FirstMessage(value.pairs[
             Min({i \in 1..Len(value.pairs) : HasMessage(value.pairs[i].v)})].v)

\* C15: the extracted message is the raw text of a response that is not JSON;
\* of a JSON response it is the value of the first field named message that a
\* depth-first search of the body finds, and the raw text when the body has
\* no such field.
C15_FirstMessageOrText ==
    (call.op = "extract_error_message" /\ call.st = "returned") =>
        LET response == call.args
        IN  IF response.json = NotJson THEN call.result = response.text
            ELSE IF HasMessage(response.json)
                 THEN call.result = FirstMessage(response.json)
            ELSE call.result = response.text

\* a field named message exists in the value at any depth, inside objects and
\* inside arrays
RECURSIVE HasMessageAnywhere(_)
HasMessageAnywhere(value) ==
    \/ value.t = "obj" /\ HasKey(value, "message")
    \/ \E i \in 1..Len(Children(value)) : HasMessageAnywhere(Children(value)[i])

RECURSIVE FirstMessageAnywhere(_)
FirstMessageAnywhere(value) ==
    IF value.t = "obj" /\ HasKey(value, "message") THEN Item(value, "message")
    ELSE FirstMessageAnywhere(Children(value)[
             Min({i \in 1..Len(Children(value)) :
                     HasMessageAnywhere(Children(value)[i])})])

\* C16: whatever the shape of a JSON error body, object, array or scalar, the
\* extraction returns a result; and when the body has a field named message
\* at any depth, also in an object inside an array, the result is the value
\* of the first such field and not the raw text.
C16_MessageAtAnyDepth ==
    /\ (call.op = "extract_error_message" /\ call.st = "called")
          => ENABLED ExtractErrorMessage
    /\ (call.op = "extract_error_message" /\ call.st = "returned")
          => LET response == call.args
             IN  (response.json # NotJson /\ HasMessageAnywhere(response.json))
                 => /\ call.result = FirstMessageAnywhere(response.json)
                    /\ call.result # response.text


\* the envelope key that the call takes the data from is missing in the body
EnvelopeKeyMissing ==
    LET type == call.args.type
        json == call.args.json
    IN  CASE call.op = "extract_list"     -> type.resource_list_key \notin DOMAIN json
          [] call.op = "awx_extract_list" -> "results" \notin DOMAIN json
          [] call.op = "extract_one"      -> /\ Given(type.resource_key)
                                             /\ type.resource_key \notin DOMAIN json
          [] call.op = "_fetch"           ->
                 DictGet(type, "resource_key", NoKey) \notin DOMAIN json
          [] OTHER                        -> FALSE

\* C14: a list response without the list key of the type, a single-entity
\* response without its resource key, and an unmanaged resource's document
\* without its key, end in an error of its own: not a KeyError, as a failed
\* key lookup gives, and not an ApiError.
C14_MalformedEnvelopeIsDistinct ==
    (/\ call.op \in {"extract_list", "awx_extract_list", "extract_one", "_fetch"}
     /\ call.st = "returned"
     /\ EnvelopeKeyMissing)
    => /\ call.result.raised # NoError
       /\ call.result.raised.exc \notin {"KeyError", "ApiError"}

\* s is t with the character ch taken off both ends, as often as it is there
Stripped(s, t, ch) ==
    /\ s = <<>> \/ (s[1] # ch /\ s[Len(s)] # ch)
    /\ \E i \in 0..Len(t) :
          /\ i + Len(s) <= Len(t)
          /\ s = SubSeq(t, i + 1, i + Len(s))
          /\ \A j \in (1..i) \cup ((i + Len(s) + 1)..Len(t)) : t[j] = ch

\* C19: the options of a resource class that declares an endpoint hold what
\* its Meta declares, unchanged, also a resource_key declared as None; a list
\* key that is not declared is the endpoint without the slashes around it, a
\* links key that is not declared is the list key, declared or derived,
\* followed by _links, and a resource key that is not declared is that list
\* key without its last character. The endpoint /flavors gives flavors,
\* flavors_links and flavor.
C19_DerivedKeys ==
    (call.op = "ResourceOptions" /\ call.st = "returned") =>
        LET meta == call.args
            opts == call.result
        IN  /\ (FlavorMeta = meta) =>
                  opts = [endpoint           |-> <<"/", "f", "l", "a", "v", "o", "r", "s">>,
                          resource_list_key  |-> <<"f", "l", "a", "v", "o", "r", "s">>,
                          resource_links_key |-> <<"f", "l", "a", "v", "o", "r", "s", "_", "l", "i", "n", "k", "s">>,
                          resource_key       |-> <<"f", "l", "a", "v", "o", "r">>]
            /\ ("endpoint" \in DOMAIN meta /\ Given(meta.endpoint)) =>
                  /\ DOMAIN opts = DOMAIN meta \cup
                        {"resource_list_key", "resource_links_key", "resource_key"}
                  /\ \A k \in DOMAIN meta : opts[k] = meta[k]
                  /\ "resource_list_key" \notin DOMAIN meta
                        => Stripped(opts.resource_list_key, meta.endpoint, "/")
                  /\ "resource_links_key" \notin DOMAIN meta
                        => opts.resource_links_key
                              = opts.resource_list_key \o <<"_", "l", "i", "n", "k", "s">>
                  /\ "resource_key" \notin DOMAIN meta
                        => /\ Len(opts.resource_key)
                                 = Max({0, Len(opts.resource_list_key) - 1})
                           /\ \A i \in 1..Len(opts.resource_key) :
                                 opts.resource_key[i] = opts.resource_list_key[i]

C19_Witness ==
    /\ call.op = "ResourceOptions"
    /\ call.st = "returned"
    /\ call.args = [endpoint          |-> <<"/", "a", "u", "t", "h", "/", "p", "r", "o", "j", "e", "c", "t", "s">>,
                    resource_list_key |-> <<"p", "r", "o", "j", "e", "c", "t", "s">>,
                    resource_key      |-> NoKey]
    /\ call.result.resource_links_key = <<"p", "r", "o", "j", "e", "c", "t", "s", "_", "l", "i", "n", "k", "s">>
    /\ call.result.resource_key = NoKey


\* C20: an operation that changes the entity of a Resource on the server
\* sends a request and returns a new Resource, made from what the server
\* answers; the Resource it was called on has the field values it had.
C20_MutationReturnsNewResource ==
    (/\ call.op \in {"Server.start", "Server.stop", "Server.reboot",
                     "JobTemplate.launch", "Inventory.copy"}
     /\ call.st = "returned")
    => /\ call.result.sent.method = "POST"
       /\ call.result.sent.on = call.args.self.data.id
       /\ call.result.self = call.args.self
       /\ call.result.returned # Null
       /\ call.result.returned.cls = call.args.self.cls
       /\ call.result.returned.data = ExtractEntity(call.args.self, call.args.response)


\* C17: an AuthParams is immutable: at any time, whatever the calls of its
\* builder methods and whatever the caller has written to the dict it gave to
\* the constructor or to a dict as_dict returned, at any nesting level, the
\* payload of its as_dict() is the payload it had when it was constructed.
C17_AuthParamsImmutable ==
    \A a \in DOMAIN auths : Payload(dicts, auths[a].params) = auths[a].made

\* the AuthParams made by use_password(d, u, p).use_project_id(x)
Chained == {a \in DOMAIN auths :
              /\ auths[a].op = "use_project_id"
              /\ auths[a].base # 0
              /\ auths[auths[a].base].op = "use_password"}

\* C18: the as_dict() of an AuthParams made by
\* use_password(d, u, p).use_project_id(x) has the identity and the scope
\* key, and use_token(t) on it makes an AuthParams whose identity is the
\* token identity for t and whose scope is the project scope for x.
C18_BuildersCompose ==
    /\ \A a \in Chained : {"identity", "scope"} \subseteq DOMAIN Payload(dicts, auths[a].params)
    /\ \A c \in DOMAIN auths :
          (auths[c].op = "use_token" /\ auths[c].base \in Chained)
          => /\ auths[c].made.identity
                  = [methods |-> <<"token">>, token |-> [id |-> auths[c].args.token]]
             /\ auths[c].made.scope
                  = [project |-> [id |-> auths[auths[c].base].args.project_id]]

\* C21: single-entity extraction returns the value the body has under the
\* resource_key of the type when the type declares one, and the whole body
\* when the type declares none.
C21_ExtractOne ==
    (call.op = "extract_one" /\ call.st = "returned")
    => LET type == call.args.type
           json == call.args.json
       IN  IF Given(type.resource_key)
           THEN type.resource_key \in DOMAIN json
                => /\ call.result.raised = NoError
                   /\ call.result.data = json[type.resource_key]
           ELSE /\ call.result.raised = NoError
                /\ call.result.data = json

C21_Witness ==
    /\ call.op = "extract_one"
    /\ call.st = "returned"
    /\ call.args.type = Flavor
    /\ call.args.json = DictSet(EmptyDict, <<"f", "l", "a", "v", "o", "r">>, [id |-> 11])
    /\ call.result.data = [id |-> 11]

\* C22: the body prepared for a create or an update is the field mapping
\* under the resource_key of the type as its only key when the type declares
\* one, and the field mapping itself when it declares none; single-entity
\* extraction applied to a body equal to the prepared body gives the field
\* mapping back.
C22_PrepareThenExtract ==
    /\ (call.op = "prepare_params" /\ call.st = "returned")
       => LET type == call.args.type
          IN  IF Given(type.resource_key)
              THEN /\ DOMAIN call.result = {type.resource_key}
                   /\ call.result[type.resource_key] = call.args.params
              ELSE call.result = call.args.params
    /\ (call.op = "extract_one" /\ call.st = "returned" /\ "prepared" \in DOMAIN call.args)
       => /\ call.result.raised = NoError
          /\ call.result.data = call.args.prepared

C22_Witness ==
    /\ call.op = "extract_one"
    /\ call.st = "returned"
    /\ "prepared" \in DOMAIN call.args
    /\ call.args.type = Flavor
    /\ DOMAIN call.args.json = {<<"f", "l", "a", "v", "o", "r">>}
    /\ <<"f", "l", "a", "v", "o", "r">> \in DOMAIN call.result.data

\* C25: fetching an unmanaged resource returns the document the response
\* body has under the envelope key of the resource, as it is there: the key
\* is the resource_key its class declares or, when it declares none, its
\* endpoint without the slashes around it, limits for the endpoint /limits.
C25_UnmanagedFetch ==
    (call.op = "_fetch" /\ call.st = "returned" /\ "meta" \in DOMAIN call.args)
    => LET meta == call.args.meta
           json == call.args.json
       IN  /\ meta = LimitsMeta => call.args.type.resource_key = <<"l", "i", "m", "i", "t", "s">>
           /\ \A key \in DOMAIN json :
                 (IF "resource_key" \in DOMAIN meta THEN key = meta.resource_key
                  ELSE Stripped(key, meta.endpoint, "/"))
                 => /\ call.result.raised = NoError
                    /\ call.result.data = json[key]
                    /\ call.result.next_url = Null

C25_Witness ==
    /\ call.op = "_fetch"
    /\ call.st = "returned"
    /\ "meta" \in DOMAIN call.args
    /\ call.args.meta = LimitsMeta
    /\ <<"l", "i", "m", "i", "t", "s">> \in DOMAIN call.args.json
    /\ call.result.data = [maxTotalCores |-> 20]

DetailListings == {g \in GenIds : gens[g].st # "absent" /\ gens[g].kwargs # Null}

\* C23: a list of a type with a detail view that is asked for with detail is
\* requested at the collection URL followed by /detail and its entities are
\* marked fully populated; asked for without detail it is requested at the
\* collection URL itself and its entities are marked partial: the entities
\* are marked partial exactly when no detail was asked for.
C23_DetailOrPartial ==
    \A g \in DetailListings :
        LET collection == [base |-> services[gens[g].service].url,
                           path |-> gens[g].type.endpoint, page |-> 0]
        IN  /\ gens[g].partial = ~gens[g].kwargs.detail
            /\ gens[g].log # <<>>
               => gens[g].log[1].msg.url =
                     IF gens[g].kwargs.detail
                     THEN [collection EXCEPT !.path = @ \o <<"/", "d", "e", "t", "a", "i", "l">>]
                     ELSE collection

C23_Witness ==
    \E g \in DetailListings :
        /\ ~gens[g].kwargs.detail
        /\ gens[g].partial
        /\ gens[g].st = "done"
        /\ gens[g].log[1].msg.url.path = <<"/", "f", "l", "a", "v", "o", "r", "s">>

\* the next URL of a list envelope: of an OpenStack envelope the href of the
\* first of its links whose rel is next, of an AWX envelope its next field;
\* Null when there is none
NextOf(api, type, json) ==
    IF api = "awx"
    THEN IF "next" \in DOMAIN json THEN json["next"] ELSE Null
    ELSE IF type.resource_links_key \notin DOMAIN json THEN Null
    ELSE LET links == json[type.resource_links_key]
             nexts == {i \in DOMAIN links : links[i].rel = "next"}
         IN  IF nexts = {} THEN Null ELSE links[Min(nexts)].href

\* the entries of the first k answers a listing got
RECURSIVE Received(_, _)
Received(g, k) ==
    IF k = 0 THEN <<>>
    ELSE Received(g, k - 1)
         \o gens[g].log[2 * k].msg.json[IF gens[g].api = "awx" THEN "results"
                                        ELSE gens[g].type.resource_list_key]

\* C26: a listing yields the entries that the answers hold under the list
\* key, and after an answer its next URL is the href of the first link of the
\* answer whose rel is next, or for AWX the next field of the answer, and is
\* absent when the answer has no links, no link whose rel is next, no next
\* field or a next field that is null; the listing has ended exactly when the
\* next URL is absent, and otherwise its next request goes to that URL.
C26_NextUrl ==
    \A g \in GenIds : \A i \in DOMAIN gens[g].log :
        LET e == gens[g].log[i]
        IN  e.ev = "response" =>
               LET next_url == NextOf(gens[g].api, gens[g].type, e.msg.json)
               IN  /\ i = Len(gens[g].log)
                      => /\ gens[g].next_url = next_url
                         /\ gens[g].yielded = Received(g, i \div 2)
                         /\ gens[g].st = IF next_url = Null THEN "done" ELSE "ready"
                   /\ i < Len(gens[g].log)
                      => /\ next_url # Null
                         /\ gens[g].log[i + 1].ev = "request"
                         /\ gens[g].log[i + 1].msg.url = next_url

C26_Witness ==
    \E g \in GenIds :
        /\ gens[g].api = "openstack"
        /\ gens[g].st = "done"
        /\ Len(gens[g].log) = 6
        /\ Len(gens[g].log[4].msg.json[gens[g].type.resource_links_key]) = 3
        /\ gens[g].type.resource_links_key \notin DOMAIN gens[g].log[6].msg.json
           \/ \A l \in DOMAIN gens[g].log[6].msg.json[gens[g].type.resource_links_key] :
                 gens[g].log[6].msg.json[gens[g].type.resource_links_key][l].rel # "next"

\* C24: the path prefix of a Service is the path prefix template of its
\* class with the placeholder {project_id} replaced by the project_id of the
\* Connection that cached it, and the template itself when it has no
\* placeholder; the prefix of the orchestration service of a scoped
\* Connection is /v1/ followed by the id of the project it was scoped to.
C24_PathPrefix ==
    \A c \in Created : \A name \in DOMAIN conns[c].cache :
        LET service  == services[conns[c].cache[name]]
            template == ServiceClass(name).path_prefix
        IN  /\ Len(service.path_prefix) = Len(template)
            /\ \A i \in DOMAIN template :
                  service.path_prefix[i] = IF template[i] = "{project_id}"
                                           THEN conns[c].project_id ELSE template[i]
            /\ name = "compute" => service.path_prefix = <<"/v2.1">>
            /\ (name = "orchestration" /\ conns[c].parent # 0)
               => service.path_prefix =
                     <<"/v1/", IF conns[c].given.isResource THEN conns[c].given.id
                               ELSE conns[c].given.value>>

C24_Witness ==
    \E c \in Created :
        /\ conns[c].parent # 0
        /\ DOMAIN conns[c].cache = {"compute", "orchestration"}
        /\ services[conns[c].cache["orchestration"]].path_prefix = <<"/v1/", "p1">>
        /\ "orchestration" \in DOMAIN conns[conns[c].parent].cache
        /\ services[conns[conns[c].parent].cache["orchestration"]].path_prefix
              = <<"/v1/", "p0">>

\* C29: for every Service subclass that attaches itself to Connection, also
\* one that declares a name, the accessor that related_manager reads for the
\* catalog type of the subclass is the name it was attached under, so the
\* accessor is found.
C29_AccessorIsAttachedName ==
    (call.op = "related_manager.getattr" /\ call.st = "returned")
    => /\ call.result.service_name = call.args.attached
       /\ call.result.raised = NoError

\* the organisations of the user of a login request
OrgsOf(request) == {request.orgs[i] : i \in DOMAIN request.orgs}

\* C27: after a POST to /login the cloud sessions of the request are either
\* one new session for each organisation of the user, the CSRF token being
\* renewed and the response the redirect to the dashboard, or none at all,
\* when the credentials are rejected or the session of an organisation ends
\* in a CloudServiceError; no session from before the POST is kept, and never
\* the sessions of only some of the organisations.
C27_AllSessionsOrNone ==
    (call.op = "login" /\ call.st = "returned" /\ call.args.method = "POST") =>
        LET request == call.args
            after   == call.result.cloud_sessions
            success == /\ DOMAIN request.params = {"username", "password"}
                       /\ request.authenticate
                       /\ OrgsOf(request) \cap request.failing = {}
        IN  /\ success
               => /\ DOMAIN after = OrgsOf(request)
                  /\ \A org \in DOMAIN after :
                        after[org] = CloudSession(request.params.username, org,
                                                  request.params.password)
                  /\ call.result.new_csrf_token
                  /\ call.result.response.kind = "redirect"
                  /\ call.result.response.location = "dashboard"
            /\ ~success
               => /\ after = EmptyDict
                  /\ ~call.result.new_csrf_token
                  /\ call.result.response # Null => call.result.response = Form
            /\ DOMAIN after \in {{}, OrgsOf(request)}
            /\ \A org \in DOMAIN after :
                  org \in DOMAIN request.cloud_sessions
                  => \/ request.cloud_sessions[org] # after[org]
                     \/ success

C27_Witness ==
    /\ call.op = "login"
    /\ call.st = "returned"
    /\ call.args.method = "POST"
    /\ call.args.authenticate
    /\ DOMAIN call.args.params = {"username", "password"}
    /\ call.args.orgs = <<"a", "b", "c">>
    /\ call.args.failing = {"c"}
    /\ DOMAIN call.args.cloud_sessions = {"a", "d"}
    /\ call.result.cloud_sessions = EmptyDict
    /\ call.result.flash = <<"c">>

\* C28: when a with-block on an UnscopedSession or a ScopedSession has been
\* left, close has been called on the session by the with statement (once
\* more than the body called it), whether the body ended normally or raised,
\* and what the body raised is what the with statement raises.
C28_WithCloses ==
    (call.op = "with" /\ call.st = "returned") =>
        /\ call.result.self.cls = call.args.self.cls
        /\ call.result.self.closes = (IF call.args.body.closes THEN 1 ELSE 0) + 1
        /\ call.result.raised = call.args.body.raised

C28_Witness ==
    /\ call.op = "with"
    /\ call.st = "returned"
    /\ call.args.body.raised = CloudServiceError("quota")
    /\ ~call.args.body.closes
    /\ call.result.self.closes = 1
    /\ call.result.raised = CloudServiceError("quota")

============================================================================
